---- MODULE Spec2Model ----
(***************************************************************************)
(* A model of the ZK-Communist time liberation server:                     *)
(*   - the time helpers          (src/src/utils/time_helpers.py)           *)
(*   - the DeviceManager         (src/src/services/device_manager.py)      *)
(*   - the TimeManipulator       (src/src/services/time_manipulator.py)    *)
(*   - the Scheduler             (src/src/services/scheduler.py)           *)
(*                                                                         *)
(* A datetime is a number of seconds counted from Monday 00:00:00 of the   *)
(* first week (microseconds are always 0 in the code paths modelled); a    *)
(* datetime.time is a number of seconds since midnight.  None is -1.        *)
(* An asyncio task runs without interruption between two awaits that       *)
(* really suspend, so an action is one such run.                           *)
(***************************************************************************)
EXTENDS Integers, Sequences, FiniteSets, TLC

VARIABLES
    \* ---- TimeWindowManager under evaluation
    window_cfg,             \* the parsed window_start / window_end / min_time / max_time
    probe,                  \* the last evaluation of the three window predicates
    \* ---- RandomTimeGenerator
    gen_cfg,                \* min_time, max_time, min_interval
    last_generated_time,    \* RandomTimeGenerator._last_generated_time
    last_generation_time,   \* RandomTimeGenerator._last_generation_time
    gen_call,               \* the last call of generate_random_timestamp and its outcome
    ready_call,             \* the last call of should_generate_new_time and its result
    \* ---- the wall clock: datetime.now() and time.time()
    now,
    \* ---- DeviceManager
    max_retry_attempts,     \* DeviceManager.max_retry_attempts
    retry_backoff_base,     \* DeviceManager.retry_backoff_base
    connection_status,      \* DeviceManager.connection_status
    device,                 \* DeviceManager.device: "None" or the ZK handle
    ip_address,             \* DeviceManager.ip_address (port and credentials go with it)
    connection_lock,        \* who holds DeviceManager._connection_lock
    health_check_task,      \* DeviceManager._health_check_task and where it stands
    reconnect_task,         \* DeviceManager._reconnect_task and where it stands
    conn,                   \* the frame of each caller's connect(): pc, attempt, ...
    disc_pc,                \* the position of the caller of disconnect()
    exec,                   \* the last execute_command call
    test,                   \* the last test_connection call of an outside caller
    live,                   \* how many health loops and reconnection tasks are alive
    device_accepts,         \* the device accepts every connect and authentication from now on
    \* ---- Scheduler
    device_manager,         \* the class of Scheduler.device_manager
    is_connected,           \* device_manager.is_connected, where the class has it
    state,                  \* Scheduler._state
    shutdown_event,         \* Scheduler._shutdown_event.is_set()
    restart_count,          \* Scheduler._restart_count
    should_restart,         \* Scheduler._should_restart
    scheduler_task,         \* Scheduler._scheduler_task: NoTask or the id of a loop task
    scheduler_health_check_task,  \* Scheduler._health_check_task and where it stands
    metrics_task,           \* Scheduler._metrics_task and where it stands
    metrics,                \* Scheduler.metrics: the three cycle counters
    loops,                  \* the scheduler-loop tasks created so far
    starts,                 \* the frame of each caller's start()
    stops,                  \* the frame of each caller's stop()
    restarts,               \* the frame of each outside caller's restart()
    status_call,            \* the last get_status() call and what it gave
    callbacks,              \* Scheduler._callbacks: what is registered for each event
    health_callback,        \* what the health-check loop caught from its callback
    \* ---- TimeManipulator
    running,                \* TimeManipulator._running
    manipulation_task,      \* TimeManipulator._manipulation_task and where it stands
    consecutive_failures,   \* TimeManipulator._consecutive_failures
    manip,                  \* the frame of _manipulation_loop
    status,                 \* TimeManipulator.status: counters and times
    forces,                 \* the frame of each force_manipulation call
    healthy_read,           \* what the last read of TimeManipulator.is_healthy gave
    \* ---- IntervalManager
    interval_cfg,           \* min_seconds, max_seconds, jitter_factor (in percent)
    interval_call           \* the last calculate_interval call

winVars == <<window_cfg, probe>>
genVars == <<gen_cfg, last_generated_time, last_generation_time, gen_call, ready_call>>
connVars == <<device_accepts, max_retry_attempts, retry_backoff_base, connection_status, device,
              ip_address, connection_lock, health_check_task, reconnect_task,
              conn, disc_pc, exec, test, live>>
schedVars == <<device_manager, is_connected, state, shutdown_event, restart_count,
               should_restart, scheduler_task, scheduler_health_check_task,
               metrics_task, metrics, loops, starts, stops, restarts, status_call,
               callbacks, health_callback>>
manipVars == <<running, manipulation_task, consecutive_failures, manip, status, forces,
               healthy_read>>
intervalVars == <<interval_cfg, interval_call>>
vars == <<winVars, genVars, now, connVars, schedVars, manipVars, intervalVars>>

\* None, for a field that otherwise holds a time or a number (all are >= 0)
None == 0 - 1

(***************************************************************************)
(* Bounds of the model.                                                    *)
(***************************************************************************)
\* random.randint(lo, hi) is drawn from the DrawEdge + 1 lowest and highest values
DrawEdge == 1
\* the generator specification lets the clock run this many seconds
MaxElapsed == 4
\* DeviceManager(max_retry_attempts = 1 .. MaxRetryAttempts)
MaxRetryAttempts == 3
\* DeviceManager(retry_backoff_base = 2 .. MaxBackoffBase)
MaxBackoffBase == 2
\* start() creates at most this many scheduler-loop tasks in a run
MaxLoopTasks == 2
\* the scheduler loops run at most this many cycles in a run
MaxCycles == 7
\* the number of tasks that call force_manipulation
MaxForcers == 1
\* force_manipulation is called while fewer attempts than this were counted
MaxAttempts == 2
\* the manipulator specification lets the clock run this many seconds
MaxRun == 4
\* the outside tasks that call Scheduler.restart()
MaxRestarters == 2
\* the manipulation loop is followed this many seconds from each boundary time
MaxLoopRun == 2
\* the manipulation loop is followed this many seconds through a failure pause
MaxPauseRun == 8

(***************************************************************************)
(* Dates and times                                                         *)
(***************************************************************************)
SecondsPerDay == 24 * 3600

\* dt_time.fromisoformat("HH:MM")
HHMM(h, m) == h * 3600 + m * 60

\* datetime(..., weekday index wd of week 0, h, m, s)
DateTime(day, tod) == day * SecondsPerDay + tod

\* datetime.weekday(): Monday = 0 ... Sunday = 6
weekday(t) == (t \div SecondsPerDay) % 7

\* datetime.time()
time_of(t) == t % SecondsPerDay

\* datetime.date()
date_of(t) == t \div SecondsPerDay

\* datetime.replace(hour, minute, second, microsecond=0)
replace_time(t, tod) == date_of(t) * SecondsPerDay + tod

Max(a, b) == IF a >= b THEN a ELSE b
Min(a, b) == IF a <= b THEN a ELSE b

\* the values of random.randint(lo, hi) the model draws
RandInt(lo, hi) == (lo..Min(hi, lo + DrawEdge)) \cup (Max(lo, hi - DrawEdge)..hi)

(***************************************************************************)
(* TimeWindowManager                                                       *)
(***************************************************************************)
DefaultWindow ==
    [window_start |-> HHMM(7, 50), window_end |-> HHMM(8, 10),
     min_time |-> HHMM(7, 55), max_time |-> HHMM(7, 59)]

\* the window configurations the model constructs managers with
WindowConfigs ==
    { DefaultWindow,
      [window_start |-> HHMM(6, 30), window_end |-> HHMM(9, 0),
       min_time |-> HHMM(6, 45), max_time |-> HHMM(8, 55)],
      [window_start |-> HHMM(7, 0), window_end |-> HHMM(7, 30),
       min_time |-> HHMM(7, 10), max_time |-> HHMM(7, 20)],
      [window_start |-> HHMM(9, 0), window_end |-> HHMM(9, 30),
       min_time |-> HHMM(9, 10), max_time |-> HHMM(9, 20)],
      [window_start |-> HHMM(8, 10), window_end |-> HHMM(7, 50),
       min_time |-> HHMM(7, 55), max_time |-> HHMM(7, 59)] }

\* _validate_time_ranges: the constructor raises ValueError unless this holds
validate_time_ranges(c) ==
    /\ ~(c.window_start >= c.window_end)
    /\ ~(c.min_time >= c.max_time)

\* mutant: the off-day test counts Sunday as a working day
is_weekday_mut(t) == weekday(t) <= 6

is_weekday(t) == weekday(t) < 6

\* mutant: the window end is excluded
is_in_manipulation_window_mut(c, t) ==
    IF ~is_weekday(t) THEN FALSE
    ELSE c.window_start <= time_of(t) /\ time_of(t) < c.window_end

is_in_manipulation_window(c, t) ==
    IF ~is_weekday(t) THEN FALSE
    ELSE c.window_start <= time_of(t) /\ time_of(t) <= c.window_end

eight_am == HHMM(8, 0)

\* mutant: 08:00:00 itself still counts as active
is_manipulation_active_mut(c, t) ==
    IF ~is_weekday(t) THEN FALSE
    ELSE /\ c.window_start <= time_of(t) /\ time_of(t) <= eight_am
         /\ is_in_manipulation_window(c, t)

is_manipulation_active(c, t) ==
    IF ~is_weekday(t) THEN FALSE
    ELSE /\ c.window_start <= time_of(t) /\ time_of(t) < eight_am
         /\ is_in_manipulation_window(c, t)

\* the times of day the predicates are evaluated at: around every boundary
ProbeTimes(c) ==
    { x \in { 0, c.window_start - 1, c.window_start, c.window_start + 1,
              eight_am - 1, eight_am, eight_am + 1,
              c.window_end - 1, c.window_end, c.window_end + 1,
              SecondsPerDay - 1 } : x >= 0 /\ x < SecondsPerDay }

NoProbe == [t |-> None, weekday |-> FALSE, in_window |-> FALSE, active |-> FALSE]

WinIdle ==
    /\ window_cfg = DefaultWindow
    /\ probe = NoProbe

\* one evaluation of is_weekday, is_in_manipulation_window and
\* is_manipulation_active at the datetime t
EvalWindow ==
    /\ \E day \in 0..6 : \E tod \in ProbeTimes(window_cfg) :
         LET t == DateTime(day, tod) IN
         probe' = [t |-> t,
                   weekday |-> is_weekday(t),
                   in_window |-> is_in_manipulation_window(window_cfg, t),
                   active |-> is_manipulation_active(window_cfg, t)]
    /\ UNCHANGED <<window_cfg, genVars, now, connVars, schedVars, manipVars, intervalVars>>

(***************************************************************************)
(* RandomTimeGenerator                                                     *)
(***************************************************************************)
\* the generators the model constructs: (min_time, max_time, min_interval_seconds)
GeneratorConfigs ==
    { [min_time |-> HHMM(7, 55), max_time |-> HHMM(7, 59), min_interval |-> 30],
      [min_time |-> HHMM(6, 30), max_time |-> HHMM(9, 0), min_interval |-> 60],
      [min_time |-> HHMM(23, 58), max_time |-> HHMM(23, 59), min_interval |-> 1],
      [min_time |-> HHMM(7, 55), max_time |-> HHMM(7, 59), min_interval |-> 3],
      [min_time |-> HHMM(7, 59), max_time |-> HHMM(7, 55), min_interval |-> 30],
      [min_time |-> HHMM(7, 55), max_time |-> HHMM(7, 59), min_interval |-> 0] }

\* _validate_bounds: the constructor raises ValueError unless this holds
\* (max_interval is not read by the operations modelled here)
validate_bounds(g) ==
    /\ ~(g.min_time >= g.max_time)
    /\ ~(g.min_interval <= 0)

\* time.hour * 3600 + time.minute * 60: replace() takes hour and minute only
HourMinute(tod) == (tod \div 60) * 60

\* min_datetime and max_datetime of generate_random_timestamp
min_datetime(g, date) == replace_time(date, HourMinute(g.min_time))
max_datetime(g, date) == replace_time(date, HourMinute(g.max_time) + 59)
total_seconds(g, date) == (max_datetime(g, date) - min_datetime(g, date)) + 1

\* mutant: the difference of the two times of day is computed
time_minus_time_mut(a, b) == "timedelta"

\* datetime.time - datetime.time: the operands support no subtraction
time_minus_time(a, b) == "TypeError"

\* generate_random_timestamp(current_date) with the draw random_offset:
\* the outcome, the value returned and the generator's fields afterwards
generate_random_timestamp(g, last_time, last_stamp, current_date, random_offset, clock) ==
    LET date == IF current_date = None THEN clock ELSE current_date
        random_datetime == min_datetime(g, date) + random_offset
    IN  IF last_time # None /\ time_minus_time(time_of(random_datetime), last_time) = "TypeError"
        THEN [outcome |-> "TypeError", value |-> None,
              last_generated_time |-> last_time, last_generation_time |-> last_stamp]
        ELSE [outcome |-> "returned", value |-> random_datetime,
              last_generated_time |-> time_of(random_datetime),
              last_generation_time |-> clock]

\* the values random.randint(0, total_seconds - 1) is drawn from
RandomOffsets(g, current_date, clock) ==
    RandInt(0, total_seconds(g, IF current_date = None THEN clock ELSE current_date) - 1)

\* mutant: the interval has to be exceeded
should_generate_new_time_mut(g, last_stamp, clock) ==
    IF last_stamp = None THEN TRUE
    ELSE (clock - last_stamp) > g.min_interval

\* should_generate_new_time(check_interval=True)
should_generate_new_time(g, last_stamp, clock) ==
    IF last_stamp = None THEN TRUE
    ELSE (clock - last_stamp) >= g.min_interval

NoCall == [date |-> None, outcome |-> "none", value |-> None]

\* no call of should_generate_new_time yet: else time.time() at the call, the
\* _last_generation_time it read and what it returned
NoReadyCall == [pc |-> "none", clock |-> None, last_stamp |-> None, result |-> FALSE]

GenIdle ==
    /\ gen_cfg = [min_time |-> HHMM(7, 55), max_time |-> HHMM(7, 59), min_interval |-> 30]
    /\ last_generated_time = None
    /\ last_generation_time = None
    /\ gen_call = NoCall
    /\ ready_call = NoReadyCall

\* the start of the modelled run: Monday 07:52:00
StartOfRun == DateTime(0, HHMM(7, 52))

\* the dates generate_random_timestamp is called with
GenDates == {None, DateTime(0, 0), DateTime(6, HHMM(12, 0))}

\* a direct call of generate_random_timestamp
Generate ==
    /\ \E d \in GenDates : \E off \in RandomOffsets(gen_cfg, d, now) :
         LET r == generate_random_timestamp(gen_cfg, last_generated_time,
                                            last_generation_time, d, off, now)
         IN  /\ gen_call' = [date |-> IF d = None THEN now ELSE d,
                             outcome |-> r.outcome, value |-> r.value]
             /\ last_generated_time' = r.last_generated_time
             /\ last_generation_time' = r.last_generation_time
    /\ UNCHANGED <<gen_cfg, ready_call, now, winVars, connVars, schedVars, manipVars, intervalVars>>

\* a direct call of should_generate_new_time
ShouldGenerate ==
    /\ ready_call' = [pc |-> "returned", clock |-> now,
                      last_stamp |-> last_generation_time,
                      result |-> should_generate_new_time(gen_cfg,
                                                          last_generation_time, now)]
    /\ UNCHANGED <<gen_cfg, last_generated_time, last_generation_time, gen_call, now,
                   winVars, connVars, schedVars, manipVars, intervalVars>>

\* the wall clock advances
GenTick ==
    /\ now + 1 <= StartOfRun + MaxElapsed
    /\ now' = now + 1
    /\ UNCHANGED <<genVars, winVars, connVars, schedVars, manipVars, intervalVars>>

(***************************************************************************)
(* IntervalManager                                                         *)
(***************************************************************************)
\* the interval managers the model constructs: jitter_factor is held in
\* percent, and int(base * jitter_factor) equals (base * percent) \div 100 for
\* every base these configurations can draw
IntervalConfigs ==
    { [min_seconds |-> 30, max_seconds |-> 90, jitter_percent |-> 10],
      [min_seconds |-> 30, max_seconds |-> 90, jitter_percent |-> 0],
      [min_seconds |-> 30, max_seconds |-> 90, jitter_percent |-> 20],
      [min_seconds |-> 1, max_seconds |-> 5, jitter_percent |-> 100],
      [min_seconds |-> 1, max_seconds |-> 1, jitter_percent |-> 100],
      [min_seconds |-> 2, max_seconds |-> 3, jitter_percent |-> 50],
      [min_seconds |-> 5, max_seconds |-> 10, jitter_percent |-> 50],
      [min_seconds |-> 1, max_seconds |-> 3, jitter_percent |-> 0],
      [min_seconds |-> 10, max_seconds |-> 20, jitter_percent |-> 30],
      [min_seconds |-> 3, max_seconds |-> 8, jitter_percent |-> 25],
      [min_seconds |-> 4, max_seconds |-> 4, jitter_percent |-> 50],
      [min_seconds |-> 0, max_seconds |-> 5, jitter_percent |-> 10],
      [min_seconds |-> 5, max_seconds |-> 2, jitter_percent |-> 10],
      [min_seconds |-> 2, max_seconds |-> 5, jitter_percent |-> 110] }

\* IntervalManager.__init__ raises ValueError unless this holds
valid_interval_config(c) ==
    /\ ~(c.min_seconds <= 0 \/ c.max_seconds <= 0)
    /\ ~(c.min_seconds > c.max_seconds)
    /\ 0 <= c.jitter_percent /\ c.jitter_percent <= 100

\* jitter_range = int(base_interval * self.jitter_factor)
jitter_range(base_interval, jitter_percent) == (base_interval * jitter_percent) \div 100

\* mutant: the result is not clamped
final_interval_mut(base_interval, jitter) == base_interval + jitter

\* final_interval = max(1, base_interval + jitter)
final_interval(base_interval, jitter) == Max(1, base_interval + jitter)

NoInterval == [base |-> None, jitter |-> 0, final |-> None]

IntervalIdle ==
    /\ interval_cfg = [min_seconds |-> 30, max_seconds |-> 90, jitter_percent |-> 10]
    /\ interval_call = NoInterval

\* one call of calculate_interval
CalculateInterval ==
    /\ \E base_interval \in RandInt(interval_cfg.min_seconds, interval_cfg.max_seconds) :
         \E jitter \in RandInt(0 - jitter_range(base_interval, interval_cfg.jitter_percent),
                               jitter_range(base_interval, interval_cfg.jitter_percent)) :
            interval_call' = [base |-> base_interval, jitter |-> jitter,
                              final |-> final_interval(base_interval, jitter)]
    /\ UNCHANGED <<interval_cfg, winVars, genVars, now, connVars, schedVars, manipVars>>

(***************************************************************************)
(* DeviceManager                                                           *)
(***************************************************************************)
\* the tasks that call connect(): an outside caller and _attempt_reconnection
Callers == {"client", "reconnect"}

\* the address, port and credentials connect() is called with
Address == "192.168.1.100"

\* a connect() frame: the loop index `attempt`, `last_exception`, what the call
\* returned or raised and the status it left; and, as a record of the run, the
\* attempts and backoff sleeps made so far and how the latest attempt failed
IdleFrame ==
    [pc |-> "idle", attempt |-> 0, last_exception |-> "None", result |-> "None",
     exit_status |-> "None", log |-> <<>>, last_failure |-> "None"]

\* an execute_command frame: the command, what the call returned or raised,
\* the device calls it issued and how the last one ended, the command name
\* carried by a DeviceTimeoutError, and the status at the call
NoExec ==
    [pc |-> "idle", command |-> "None", outcome |-> "None", io_started |-> FALSE,
     calls |-> 0, device_call |-> "None", operation |-> "None",
     status_before |-> "None"]

\* the health-monitoring loops and the reconnection tasks that were created
\* and have not ended
NoTasks == [health |-> 0, reconnect |-> 0]

NoTest ==
    [pc |-> "idle", result |-> "None", io_started |-> FALSE, read |-> "None",
     status_before |-> "None"]

ConnIdle ==
    /\ max_retry_attempts = 1
    /\ retry_backoff_base = 1
    /\ connection_status = "disconnected"
    /\ device = "None"
    /\ ip_address = "None"
    /\ connection_lock = "free"
    /\ health_check_task = "None"
    /\ reconnect_task = "None"
    /\ conn = [c \in Callers |-> IdleFrame]
    /\ disc_pc = "idle"
    /\ exec = NoExec
    /\ test = NoTest
    /\ live = NoTasks
    /\ device_accepts = FALSE

RECURSIVE Pow(_, _)
Pow(b, e) == IF e = 0 THEN 1 ELSE b * Pow(b, e - 1)

\* mutant: the exponent is off by one
backoff_delay_mut(base, attempt) == Pow(base, attempt + 1)

\* delay = self.retry_backoff_base**attempt
backoff_delay(base, attempt) == Pow(base, attempt)

\* mutant: a backoff sleep (and one more attempt) follows the last attempt too
retry_after_mut(attempt, max_attempts) == attempt < max_attempts

\* if attempt < self.max_retry_attempts - 1
retry_after(attempt, max_attempts) == attempt < max_attempts - 1

\* the except clauses of connect(): the exception kept in last_exception
exception_for(failure) ==
    CASE failure = "timeout" -> "DeviceTimeoutError"
      [] failure \in {"auth_false", "auth_raise"} -> "DeviceAuthenticationError"
      [] OTHER -> "DeviceConnectionError"

\* how an attempt failed: the wait_for timeout, the authentication (verify
\* returned false, or verify / enable_device raised) or any other error
failure_mode(failure) ==
    CASE failure = "timeout" -> "timeout"
      [] failure \in {"auth_false", "auth_raise"} -> "authentication"
      [] OTHER -> "connection"

\* mutant: the lock is entered whoever holds it
lock_acquired_mut(lock) == TRUE

\* async with self._connection_lock: the body is entered once the lock is free
lock_acquired(lock) == lock = "free"

\* the start of connect(): the lock is taken, the parameters stored and the
\* first attempt begun (up to the await of _create_connection)
begin_connect(c) ==
    /\ lock_acquired(connection_lock)
    /\ connection_lock' = c
    /\ ip_address' = Address
    /\ connection_status' = "connecting"
    /\ conn' = [conn EXCEPT ![c] =
                   [IdleFrame EXCEPT !.pc = "creating",
                                     !.log = <<[kind |-> "attempt", n |-> 1]>>]]

\* for attempt in range(self.max_retry_attempts)
in_range(attempt, max_attempts) == attempt < max_attempts

\* the end of a failed iteration of the retry loop: the next attempt begins
\* (up to the await of _create_connection), or the loop is exhausted, the
\* status becomes ERROR and last_exception is raised
end_of_iteration(f, dev, current_status) ==
    IF in_range(f.attempt + 1, max_retry_attempts)
    THEN [frame |-> [f EXCEPT !.pc = "creating", !.attempt = @ + 1,
                              !.log = Append(@, [kind |-> "attempt",
                                                 n |-> f.attempt + 2])],
          device |-> dev, status |-> "connecting", released |-> FALSE]
    ELSE [frame |-> [f EXCEPT !.pc = "raised", !.result = f.last_exception,
                              !.exit_status = "error"],
          device |-> dev, status |-> "error", released |-> TRUE]

\* what follows _cleanup_connection in a failed attempt: the backoff sleep if
\* attempts remain, else the end of the iteration
after_cleanup(f, current_status) ==
    IF retry_after(f.attempt, max_retry_attempts)
    THEN [frame |-> [f EXCEPT !.pc = "backoff",
                              !.log = Append(@, [kind |-> "sleep",
                                                 n |-> backoff_delay(retry_backoff_base,
                                                                     f.attempt)])],
          device |-> "None", status |-> current_status, released |-> FALSE]
    ELSE end_of_iteration(f, "None", current_status)

\* an attempt failed: last_exception is set, then _cleanup_connection runs
\* (it awaits the device only when a handle is held)
attempt_failed(f, failure, current_status) ==
    LET g == [f EXCEPT !.last_exception = exception_for(failure),
                       !.last_failure = failure_mode(failure)]
    IN  IF device # "None"
        THEN [frame |-> [g EXCEPT !.pc = "cleanup"],
              device |-> device, status |-> current_status, released |-> FALSE]
        ELSE after_cleanup(g, current_status)

\* if self._health_check_task and not self._health_check_task.done()
health_monitoring_running(task) == task \notin {"None", "done"}

\* mutant: a reconnection is spawned whether or not one is running
reconnection_running_mut(task) == FALSE

\* not (not self._reconnect_task or self._reconnect_task.done())
reconnection_running(task) == task \notin {"None", "done"}

\* the manager's fields after a step of connect() by caller c; when the call
\* ends inside _attempt_reconnection the task ends with it (on a raise
\* _attempt_reconnection sets ERROR again)
apply_connect(c, r) ==
    /\ conn' = [conn EXCEPT ![c] = r.frame]
    /\ device' = r.device
    /\ connection_status' = r.status
    /\ connection_lock' = IF r.released THEN "free" ELSE connection_lock
    /\ reconnect_task' = IF c = "reconnect" /\ r.released THEN "done" ELSE reconnect_task
    /\ live' = [live EXCEPT
                   !.reconnect = IF c = "reconnect" /\ r.released THEN @ - 1 ELSE @,
                   !.health = IF r.frame.result = "True"
                                 /\ ~health_monitoring_running(health_check_task)
                              THEN @ + 1 ELSE @]

\* an outside caller calls connect(); the call waits while the lock is held
ClientConnect ==
    /\ conn["client"].pc \in {"idle", "returned", "raised"}
    /\ begin_connect("client")
    /\ UNCHANGED live
    /\ UNCHANGED <<device_accepts, max_retry_attempts, retry_backoff_base, device, health_check_task,
                   reconnect_task, disc_pc, exec, test>>
    /\ UNCHANGED <<winVars, genVars, now, schedVars, manipVars, intervalVars>>

\* how the awaited device call of an attempt can end
DeviceOutcomes(failures) == IF device_accepts THEN {"ok"} ELSE {"ok"} \cup failures

\* asyncio.wait_for(self._create_connection(...)) completes
CreateConnectionDone(c) ==
    /\ conn[c].pc = "creating"
    /\ \E outcome \in DeviceOutcomes({"timeout", "error"}) :
         IF outcome = "ok"
         THEN apply_connect(c, [frame |-> [conn[c] EXCEPT !.pc = "authenticating"],
                                device |-> "ZK", status |-> "connected",
                                released |-> FALSE])
         ELSE apply_connect(c, attempt_failed(conn[c], outcome, connection_status))
    /\ UNCHANGED <<device_accepts, max_retry_attempts, retry_backoff_base, ip_address,
                   health_check_task, disc_pc, exec, test>>
    /\ UNCHANGED <<winVars, genVars, now, schedVars, manipVars, intervalVars>>

\* _start_health_monitoring
start_health_monitoring(task) ==
    IF health_monitoring_running(task) THEN task ELSE "sleeping"

\* self._authenticate_device() completes
AuthenticateDone(c) ==
    /\ conn[c].pc = "authenticating"
    /\ \E outcome \in DeviceOutcomes({"auth_false", "auth_raise"}) :
         IF outcome = "ok"
         THEN /\ apply_connect(c, [frame |-> [conn[c] EXCEPT !.pc = "returned",
                                                             !.result = "True",
                                                             !.exit_status = "authenticated"],
                                   device |-> device, status |-> "authenticated",
                                   released |-> TRUE])
              /\ health_check_task' = start_health_monitoring(health_check_task)
         ELSE /\ apply_connect(c, attempt_failed(conn[c], outcome, connection_status))
              /\ UNCHANGED health_check_task
    /\ UNCHANGED <<device_accepts, max_retry_attempts, retry_backoff_base, ip_address, disc_pc, exec, test>>
    /\ UNCHANGED <<winVars, genVars, now, schedVars, manipVars, intervalVars>>

\* _cleanup_connection of a failed attempt completes
CleanupDone(c) ==
    /\ conn[c].pc = "cleanup"
    /\ apply_connect(c, after_cleanup(conn[c], connection_status))
    /\ UNCHANGED <<device_accepts, max_retry_attempts, retry_backoff_base, ip_address,
                   health_check_task, disc_pc, exec, test>>
    /\ UNCHANGED <<winVars, genVars, now, schedVars, manipVars, intervalVars>>

\* asyncio.sleep(delay) completes and the iteration ends
BackoffDone(c) ==
    /\ conn[c].pc = "backoff"
    /\ apply_connect(c, end_of_iteration(conn[c], device, connection_status))
    /\ UNCHANGED <<device_accepts, max_retry_attempts, retry_backoff_base, ip_address,
                   health_check_task, disc_pc, exec, test>>
    /\ UNCHANGED <<winVars, genVars, now, schedVars, manipVars, intervalVars>>

\* mutant: a finished reconnection task is never replaced
spawn_reconnection_mut(task) == IF task = "None" THEN "pending" ELSE task

\* if not self._reconnect_task or self._reconnect_task.done(): create_task(...)
spawn_reconnection(task) ==
    IF reconnection_running(task) THEN task ELSE "pending"

\* the task counts after the health loop's reconnection guard: one more
\* when create_task put a new task in the slot
spawned(task) ==
    [live EXCEPT !.reconnect =
        IF spawn_reconnection(task) = "pending"
           /\ (task # "pending" \/ ~reconnection_running(task))
        THEN @ + 1 ELSE @]

\* mutant: the guard looks at the handle only
not_connected_mut(dev, current_status) == dev = "None"

\* the guard of test_connection and execute_command:
\* not self.device or self.connection_status != ConnectionStatus.AUTHENTICATED
not_connected(dev, current_status) == dev = "None" \/ current_status # "authenticated"

\* _health_monitoring_loop wakes from asyncio.sleep(health_check_interval) and
\* calls test_connection, which fails at once or awaits the device
HealthWake ==
    /\ health_check_task = "sleeping"
    /\ IF not_connected(device, connection_status)
       THEN /\ connection_status' = "reconnecting"
            /\ reconnect_task' = spawn_reconnection(reconnect_task)
            /\ live' = spawned(reconnect_task)
            /\ UNCHANGED health_check_task
       ELSE /\ health_check_task' = "probing"
            /\ UNCHANGED <<connection_status, reconnect_task, live>>
    /\ UNCHANGED <<device_accepts, max_retry_attempts, retry_backoff_base, device, ip_address,
                   connection_lock, conn, disc_pc, exec, test>>
    /\ UNCHANGED <<winVars, genVars, now, schedVars, manipVars, intervalVars>>

\* the device read of test_connection completes, in time or not
HealthProbeResult(healthy) ==
    /\ health_check_task = "probing"
    /\ health_check_task' = "sleeping"
    /\ IF healthy
       THEN UNCHANGED <<connection_status, reconnect_task, live>>
       ELSE /\ connection_status' = "reconnecting"
            /\ reconnect_task' = spawn_reconnection(reconnect_task)
            /\ live' = spawned(reconnect_task)
    /\ UNCHANGED <<device_accepts, max_retry_attempts, retry_backoff_base, device, ip_address,
                   connection_lock, conn, disc_pc, exec, test>>
    /\ UNCHANGED <<winVars, genVars, now, schedVars, manipVars, intervalVars>>

HealthProbeDone == \E healthy \in BOOLEAN : HealthProbeResult(healthy)

\* _attempt_reconnection starts: it gives up without parameters, else calls
\* connect(), which begins at once or waits for the lock
ReconnectRun ==
    /\ reconnect_task \in {"pending", "waitlock"}
    /\ IF reconnect_task = "pending" /\ ip_address = "None"
       THEN /\ reconnect_task' = "done"
            /\ live' = [live EXCEPT !.reconnect = @ - 1]
            /\ UNCHANGED <<connection_status, ip_address, connection_lock, conn>>
       ELSE IF connection_lock = "free"
       THEN /\ begin_connect("reconnect")
            /\ reconnect_task' = "connecting"
            /\ UNCHANGED live
       ELSE /\ reconnect_task = "pending"
            /\ reconnect_task' = "waitlock"
            /\ UNCHANGED <<connection_status, ip_address, connection_lock, conn, live>>
    /\ UNCHANGED <<device_accepts, max_retry_attempts, retry_backoff_base, device,
                   health_check_task, disc_pc, exec, test>>
    /\ UNCHANGED <<winVars, genVars, now, schedVars, manipVars, intervalVars>>

\* the fields of the manager that disconnect() works on
Manager ==
    [connection_status |-> connection_status, device |-> device,
     ip_address |-> ip_address, health_check_task |-> health_check_task,
     reconnect_task |-> reconnect_task]

\* mutant: the reconnection task is left alone
stop_health_monitoring_mut(m) ==
    [m EXCEPT !.health_check_task = IF @ \in {"None", "done"} THEN @ ELSE "done"]

\* _stop_health_monitoring: the health task and the reconnection task are
\* cancelled and awaited unless absent or done
stop_health_monitoring(m) ==
    [m EXCEPT !.health_check_task = IF @ \in {"None", "done"} THEN @ ELSE "done",
              !.reconnect_task = IF @ \in {"None", "done"} THEN @ ELSE "done"]

\* _cleanup_connection: the handle is dropped, whatever the device answers
cleanup_connection(m) == [m EXCEPT !.device = "None"]

\* the assignments that end disconnect()
reset_connection(m) ==
    [m EXCEPT !.connection_status = "disconnected", !.ip_address = "None"]

\* disconnect() from its first statement to its last
disconnect(m) == reset_connection(cleanup_connection(stop_health_monitoring(m)))

\* the task counts after _stop_health_monitoring cancelled the tasks it holds
stopped(m) ==
    [health |-> IF health_monitoring_running(m.health_check_task)
                THEN live.health - 1 ELSE live.health,
     reconnect |-> IF m.reconnect_task \notin {"None", "done"}
                   THEN live.reconnect - 1 ELSE live.reconnect]

\* the manager's fields after a step of disconnect()
apply_disconnect(m) ==
    /\ connection_status' = m.connection_status
    /\ device' = m.device
    /\ ip_address' = m.ip_address
    /\ health_check_task' = m.health_check_task
    /\ reconnect_task' = m.reconnect_task

\* disconnect() takes the lock and runs _stop_health_monitoring; then
\* _cleanup_connection awaits the device when a handle is held, else the call
\* runs to its end
DisconnectBegin ==
    /\ disc_pc = "idle"
    /\ connection_lock = "free"
    /\ live' = stopped(Manager)
    /\ IF device # "None"
       THEN /\ apply_disconnect(stop_health_monitoring(Manager))
            /\ disc_pc' = "cleanup"
            /\ connection_lock' = "disconnect"
       ELSE /\ apply_disconnect(disconnect(Manager))
            /\ UNCHANGED <<disc_pc, connection_lock>>
    /\ UNCHANGED <<device_accepts, max_retry_attempts, retry_backoff_base, conn, exec, test>>
    /\ UNCHANGED <<winVars, genVars, now, schedVars, manipVars, intervalVars>>

\* _cleanup_connection of disconnect() completes; the fields are reset
DisconnectFinish ==
    /\ disc_pc = "cleanup"
    /\ disc_pc' = "idle"
    /\ apply_disconnect(reset_connection(cleanup_connection(Manager)))
    /\ connection_lock' = "free"
    /\ UNCHANGED live
    /\ UNCHANGED <<device_accepts, max_retry_attempts, retry_backoff_base, conn, exec, test>>
    /\ UNCHANGED <<winVars, genVars, now, schedVars, manipVars, intervalVars>>

\* the commands execute_command is called with
Commands == {"get_time", "set_time", "set_time_without_target", "unknown"}

\* mutant: set_time reaches the device without a target time
reaches_device_mut(command) ==
    command \in {"get_time", "set_time", "set_time_without_target"}

\* _execute_device_command reaches the device for these only
reaches_device(command) == command \in {"get_time", "set_time"}

\* execute_command(command) up to its first await of the device
execute_command(command, dev, current_status) ==
    IF not_connected(dev, current_status)
    THEN [NoExec EXCEPT !.pc = "done", !.command = command,
                        !.outcome = "DeviceConnectionError",
                        !.status_before = current_status]
    ELSE IF reaches_device(command)
    THEN [NoExec EXCEPT !.pc = "io", !.command = command, !.io_started = TRUE,
                        !.calls = 1, !.status_before = current_status]
    ELSE [NoExec EXCEPT !.pc = "done", !.command = command,
                        !.outcome = "DeviceCommandError",
                        !.status_before = current_status]

\* mutant: a timeout is reported like any other failure of the command
command_timed_out_mut(device_call) == FALSE

\* except asyncio.TimeoutError
command_timed_out(device_call) == device_call = "timeout"

\* execute_command from the end of wait_for(_execute_device_command, 10):
\* the result is returned, or the error raised; nothing is retried
command_result(f, device_call) ==
    LET g == [f EXCEPT !.pc = "done", !.device_call = device_call] IN
    IF command_timed_out(device_call)
    THEN [g EXCEPT !.outcome = "DeviceTimeoutError", !.operation = f.command]
    ELSE IF device_call = "raise"
    THEN [g EXCEPT !.outcome = "DeviceCommandError"]
    ELSE [g EXCEPT !.outcome = device_call]

\* a task calls execute_command
ExecCall ==
    /\ exec.pc # "io"
    /\ \E command \in Commands :
         exec' = execute_command(command, device, connection_status)
    /\ UNCHANGED live
    /\ UNCHANGED <<device_accepts, max_retry_attempts, retry_backoff_base, connection_status, device,
                   ip_address, connection_lock, health_check_task, reconnect_task,
                   conn, disc_pc, test>>
    /\ UNCHANGED <<winVars, genVars, now, schedVars, manipVars, intervalVars>>

\* the device call of execute_command returns, raises or exceeds 10 s
ExecDone ==
    /\ exec.pc = "io"
    /\ \E device_call \in {"True", "False", "raise", "timeout"} :
         exec' = command_result(exec, device_call)
    /\ UNCHANGED live
    /\ UNCHANGED <<device_accepts, max_retry_attempts, retry_backoff_base, connection_status, device,
                   ip_address, connection_lock, health_check_task, reconnect_task,
                   conn, disc_pc, test>>
    /\ UNCHANGED <<winVars, genVars, now, schedVars, manipVars, intervalVars>>

\* test_connection() up to its await of the device-time read
test_connection(dev, current_status) ==
    IF not_connected(dev, current_status)
    THEN [pc |-> "done", result |-> "False", io_started |-> FALSE, read |-> "None",
          status_before |-> current_status]
    ELSE [pc |-> "io", result |-> "None", io_started |-> TRUE, read |-> "None",
          status_before |-> current_status]

\* mutant: a read that timed out counts as a healthy connection
read_succeeded_mut(outcome) == outcome \in {"ok", "timeout"}

\* return device_info is not None: _get_device_info gives a dictionary when
\* the read returned and None when it raised; a timeout of wait_for is
\* caught by test_connection
read_succeeded(outcome) == outcome = "ok"

\* an outside task calls test_connection
TestCall ==
    /\ test.pc # "io"
    /\ test' = test_connection(device, connection_status)
    /\ UNCHANGED live
    /\ UNCHANGED <<device_accepts, max_retry_attempts, retry_backoff_base, connection_status, device,
                   ip_address, connection_lock, health_check_task, reconnect_task,
                   conn, disc_pc, exec>>
    /\ UNCHANGED <<winVars, genVars, now, schedVars, manipVars, intervalVars>>

\* the device-time read of test_connection returns, raises or exceeds 5 s
TestDone ==
    /\ test.pc = "io"
    /\ \E outcome \in {"ok", "error", "timeout"} :
         test' = [test EXCEPT !.pc = "done", !.read = outcome,
                              !.result = IF read_succeeded(outcome)
                                         THEN "True" ELSE "False"]
    /\ UNCHANGED live
    /\ UNCHANGED <<device_accepts, max_retry_attempts, retry_backoff_base, connection_status, device,
                   ip_address, connection_lock, health_check_task, reconnect_task,
                   conn, disc_pc, exec>>
    /\ UNCHANGED <<winVars, genVars, now, schedVars, manipVars, intervalVars>>

(***************************************************************************)
(* The scheduler and the time manipulator as one world                     *)
(***************************************************************************)
\* the caller of Scheduler.start() / stop() from outside; the other callers
\* are the scheduler-loop tasks 1 .. MaxLoopTasks, through restart()
Client == 0

\* Scheduler._scheduler_task is None
NoTask == 0

LoopIds == 1..MaxLoopTasks

\* the outside tasks that call Scheduler.restart(): -1, -2, ...
Restarters == {0 - r : r \in 1..MaxRestarters}

SchedCallers == {Client} \cup LoopIds

\* the tasks that call start() and stop() when outside tasks call restart()
RestartCallers == SchedCallers \cup Restarters

\* the tasks that call force_manipulation
Forcers == 1..MaxForcers

\* SchedulerConfig defaults
enable_auto_restart == TRUE
enable_performance_monitoring == TRUE
max_restart_attempts == 3

\* the ManipulationConfig the manipulator is constructed with (the window and
\* the random range keep their defaults); jitter_factor is jitter_percent / 100
ManipConfig ==
    [min_interval_seconds |-> 2, max_interval_seconds |-> 3, jitter_percent |-> 50,
     max_failures_before_pause |-> 2, failure_pause_duration |-> 3]

\* the RandomTimeGenerator the manipulator constructs from its configuration
ManipGenerator ==
    [min_time |-> DefaultWindow.min_time, max_time |-> DefaultWindow.max_time,
     min_interval |-> ManipConfig.min_interval_seconds]

\* ManipulationStatus()
ZeroStatus ==
    [total_manipulations |-> 0, successful_manipulations |-> 0,
     failed_manipulations |-> 0, last_manipulation_time |-> None,
     next_manipulation_time |-> None]

\* SchedulerMetrics()
ZeroMetrics == [total_cycles |-> 0, successful_cycles |-> 0, failed_cycles |-> 0]

\* the frame of the manipulation loop: where it is suspended, the current_time
\* of the iteration, when its sleep ends, and the coroutine the last iteration
\* of the while loop awaited
IdleManip ==
    [pc |-> "none", current_time |-> None, wake_at |-> None, branch |-> "None"]

\* the frame of a force_manipulation call
IdleForce == [pc |-> "idle", result |-> "None"]

\* the frame of a start() call: the state it was called in, the states it
\* assigned, what connect() gave, the loop task it launched, what it caught,
\* and what _trigger_callback caught from the on_start callback
IdleStart ==
    [pc |-> "idle", result |-> "None", from_state |-> "None", trace |-> <<>>,
     connect |-> "None", launched |-> NoTask, raised |-> "None",
     callback |-> "None"]

\* the frame of a stop() call: the state it was called in, the scheduler task
\* captured in tasks_to_cancel, the index k of the task awaited, whether the
\* current wait_for timed out, and what the call did and caught
IdleStop ==
    [pc |-> "idle", result |-> "None", from_state |-> "None", captured |-> NoTask,
     k |-> 0, timeout |-> FALSE, timed_out |-> FALSE, teardown |-> FALSE,
     raised |-> "None", callback |-> "None"]

\* the frame of a restart() call of an outside task: where it stands, the
\* _restart_count it read at its check, and what the last call returned
IdleRestart == [pc |-> "idle", result |-> "None", entered_at |-> None]

\* Scheduler._callbacks = {}
NoCallbacks == [on_start |-> "None", on_stop |-> "None", on_health_check |-> "None"]

\* callbacks that raise an Exception when they are called
RaisingCallbacks ==
    [on_start |-> "raises", on_stop |-> "raises", on_health_check |-> "raises"]

\* no get_status() call yet
NoStatusCall == [pc |-> "idle", raised |-> "None", snapshot |-> "None"]

\* a scheduler-loop task that does not exist yet
NoLoop == [pc |-> "none", must_cancel |-> FALSE]

\* the fields of the scheduler, of the manipulator and of its generator
World ==
    [state |-> state, shutdown_event |-> shutdown_event,
     restart_count |-> restart_count, should_restart |-> should_restart,
     scheduler_task |-> scheduler_task, health |-> scheduler_health_check_task,
     metrics_task |-> metrics_task, metrics |-> metrics,
     is_connected |-> is_connected, loops |-> loops, starts |-> starts,
     stops |-> stops, restarts |-> restarts,
     callbacks |-> callbacks, health_callback |-> health_callback,
     running |-> running, manipulation_task |-> manipulation_task,
     consecutive_failures |-> consecutive_failures, manip |-> manip,
     status |-> status, forces |-> forces,
     last_generated_time |-> last_generated_time,
     last_generation_time |-> last_generation_time]

Commit(w) ==
    /\ state' = w.state
    /\ shutdown_event' = w.shutdown_event
    /\ restart_count' = w.restart_count
    /\ should_restart' = w.should_restart
    /\ scheduler_task' = w.scheduler_task
    /\ scheduler_health_check_task' = w.health
    /\ metrics_task' = w.metrics_task
    /\ metrics' = w.metrics
    /\ is_connected' = w.is_connected
    /\ loops' = w.loops
    /\ starts' = w.starts
    /\ stops' = w.stops
    /\ restarts' = w.restarts
    /\ health_callback' = w.health_callback
    /\ running' = w.running
    /\ manipulation_task' = w.manipulation_task
    /\ consecutive_failures' = w.consecutive_failures
    /\ manip' = w.manip
    /\ status' = w.status
    /\ forces' = w.forces
    /\ last_generated_time' = w.last_generated_time
    /\ last_generation_time' = w.last_generation_time

\* what an action of the world leaves alone
outsideWorld ==
    <<device_manager, status_call, callbacks, window_cfg, probe, gen_cfg, gen_call,
      ready_call, healthy_read, now,
      connVars, intervalVars>>

SchedIdle ==
    /\ device_manager = "MockDeviceManager"
    /\ is_connected = FALSE
    /\ state = "stopped"
    /\ shutdown_event = FALSE
    /\ restart_count = 0
    /\ should_restart = FALSE
    /\ scheduler_task = NoTask
    /\ scheduler_health_check_task = "None"
    /\ metrics_task = "None"
    /\ metrics = ZeroMetrics
    /\ loops = [i \in LoopIds |-> NoLoop]
    /\ starts = [c \in SchedCallers |-> IdleStart]
    /\ stops = [c \in SchedCallers |-> IdleStop]
    /\ restarts = [r \in {} |-> IdleRestart]
    /\ status_call = NoStatusCall
    /\ callbacks = NoCallbacks
    /\ health_callback = "None"

ManipIdle ==
    /\ running = FALSE
    /\ manipulation_task = "None"
    /\ consecutive_failures = 0
    /\ manip = IdleManip
    /\ status = ZeroStatus
    /\ forces = [f \in Forcers |-> IdleForce]
    /\ healthy_read = "None"

(***************************************************************************)
(* TimeManipulator                                                         *)
(***************************************************************************)
\* IntervalManager.calculate_interval: the values it can return
Intervals ==
    UNION { { final_interval(base, jitter) :
                jitter \in RandInt(0 - jitter_range(base, ManipConfig.jitter_percent),
                                   jitter_range(base, ManipConfig.jitter_percent)) } :
            base \in RandInt(ManipConfig.min_interval_seconds,
                             ManipConfig.max_interval_seconds) }

\* start_manipulation_cycle
start_manipulation_cycle(w) ==
    IF w.running THEN w
    ELSE [w EXCEPT !.running = TRUE, !.consecutive_failures = 0,
                   !.manipulation_task = "running",
                   !.manip = [IdleManip EXCEPT !.pc = "ready"]]

\* mutant: stop_manipulation_cycle does not cancel the manipulation task
cancel_manipulation_mut(w) == [w EXCEPT !.running = FALSE]

\* stop_manipulation_cycle up to the await of the cancelled task
cancel_manipulation(w) ==
    [w EXCEPT !.running = FALSE, !.manipulation_task = "cancelling"]

\* the manipulation loop leaves its while loop and the task ends
manipulation_loop_ends(w) ==
    [w EXCEPT !.manipulation_task = "done", !.manip.pc = "done"]

\* await asyncio.sleep(d)
sleep_for(w, d) == [w EXCEPT !.manip.pc = "sleeping", !.manip.wake_at = now + d]

\* a coroutine of the loop returned without suspending: the while loop runs
\* again at once, and keeps the event loop until the clock moves
spin(w) == [w EXCEPT !.manip.pc = "spinning"]

\* the branches after `success = await execute_command(...)` and the except
\* clause of _perform_manipulation
record_attempt(w, current_time, success) ==
    IF success
    THEN [w EXCEPT !.consecutive_failures = 0,
                   !.status.last_manipulation_time = current_time,
                   !.status.successful_manipulations = @ + 1]
    ELSE [w EXCEPT !.consecutive_failures = @ + 1,
                   !.status.failed_manipulations = @ + 1]

\* the end of _perform_manipulation: total_manipulations += 1 and the sleep
\* of the next interval
after_attempt(w, current_time, interval) ==
    LET w1 == [w EXCEPT !.status.total_manipulations = @ + 1]
    IN  IF w1.running
        THEN sleep_for([w1 EXCEPT !.status.next_manipulation_time =
                                      current_time + interval], interval)
        ELSE manipulation_loop_ends(w1)

\* the try block of _perform_manipulation up to the await of execute_command
perform_attempt(w, current_time, random_offset, interval) ==
    LET r == generate_random_timestamp(gen_cfg, w.last_generated_time,
                                       w.last_generation_time, current_time,
                                       random_offset, now)
    IN  IF r.outcome = "returned"
        THEN [w EXCEPT !.last_generated_time = r.last_generated_time,
                       !.last_generation_time = r.last_generation_time,
                       !.manip.pc = "executing",
                       !.manip.current_time = current_time]
        ELSE after_attempt(record_attempt(w, current_time, FALSE),
                           current_time, interval)

\* mutant: no pause after too many consecutive failures
perform_manipulation_mut(w, current_time, random_offset, interval) ==
    IF ~should_generate_new_time(gen_cfg, w.last_generation_time, now)
    THEN spin(w)
    ELSE perform_attempt(w, current_time, random_offset, interval)

\* _perform_manipulation(current_time)
perform_manipulation(w, current_time, random_offset, interval) ==
    IF ~should_generate_new_time(gen_cfg, w.last_generation_time, now)
    THEN spin(w)
    ELSE IF w.consecutive_failures >= ManipConfig.max_failures_before_pause
    THEN [w EXCEPT !.manip.pc = "pausing", !.manip.current_time = current_time,
                   !.manip.wake_at = now + ManipConfig.failure_pause_duration]
    ELSE perform_attempt(w, current_time, random_offset, interval)

\* _sleep_until_window_end(current_time)
sleep_until_window_end(w, current_time) ==
    LET sleep_duration ==
            replace_time(current_time, HourMinute(window_cfg.window_end)) - current_time
    IN  IF sleep_duration > 0 THEN sleep_for(w, sleep_duration) ELSE spin(w)

\* _sleep_until_next_window(current_time)
sleep_until_next_window(w, current_time) ==
    LET sleep_duration ==
            replace_time(current_time + SecondsPerDay,
                         HourMinute(window_cfg.window_start)) - current_time
    IN  IF sleep_duration > 0 THEN sleep_for(w, sleep_duration) ELSE spin(w)

\* the loop awaits one of its three coroutines
awaits(w, coroutine) == [w EXCEPT !.manip.branch = coroutine]

\* one iteration of the while loop of _manipulation_loop
manipulation_iteration(w, random_offset, interval) ==
    IF ~w.running THEN manipulation_loop_ends(w)
    ELSE IF is_manipulation_active(window_cfg, now)
    THEN perform_manipulation(awaits(w, "_perform_manipulation"), now,
                              random_offset, interval)
    ELSE IF is_in_manipulation_window(window_cfg, now)
    THEN sleep_until_window_end(awaits(w, "_sleep_until_window_end"), now)
    ELSE sleep_until_next_window(awaits(w, "_sleep_until_next_window"), now)

\* the instants the modelled runs of the manipulator start at: inside the
\* active window, just before 08:00, just before the window end, on the off-day
RunStarts ==
    { DateTime(0, HHMM(7, 52)), DateTime(0, HHMM(7, 59) + 57),
      DateTime(0, HHMM(8, 9) + 58), DateTime(6, HHMM(7, 52)) }

\* while the manipulation loop spins no other task gets the event loop
EventLoopFree == manip.pc # "spinning"

\* a caller starts the manipulation cycle
StartCycle ==
    /\ EventLoopFree
    /\ manipulation_task # "cancelling"
    /\ ~running
    /\ status.total_manipulations < MaxAttempts
    /\ Commit(start_manipulation_cycle(World))
    /\ UNCHANGED outsideWorld

\* a caller stops the manipulation cycle
StopCycle ==
    /\ EventLoopFree
    /\ running
    /\ Commit(cancel_manipulation(World))
    /\ UNCHANGED outsideWorld

\* the manipulation loop runs: at its start, after a sleep, or spinning
ManipLoopStep ==
    /\ manipulation_task = "running"
    /\ \/ manip.pc \in {"ready", "spinning"}
       \/ manip.pc \in {"sleeping", "pausing"} /\ now >= manip.wake_at
    /\ \E random_offset \in RandomOffsets(gen_cfg, now, now) : \E interval \in Intervals :
         IF manip.pc = "pausing"
         THEN Commit(perform_attempt([World EXCEPT !.consecutive_failures = 0],
                                     manip.current_time, random_offset, interval))
         ELSE Commit(manipulation_iteration(World, random_offset, interval))
    /\ UNCHANGED outsideWorld

\* execute_command("set_time") of the loop completes
ManipExecDone ==
    /\ manipulation_task = "running"
    /\ manip.pc = "executing"
    /\ \E outcome \in {"True", "False", "raise"} : \E interval \in Intervals :
         Commit(after_attempt(record_attempt(World, manip.current_time, outcome = "True"),
                              manip.current_time, interval))
    /\ UNCHANGED outsideWorld

\* the cancelled manipulation loop gets CancelledError and ends
ManipCancelled ==
    /\ manipulation_task = "cancelling"
    /\ Commit(manipulation_loop_ends(World))
    /\ UNCHANGED outsideWorld

\* force_manipulation(target_time) up to the await of execute_command
force_manipulation(w, f, given, random_offset) ==
    LET r == generate_random_timestamp(gen_cfg, w.last_generated_time,
                                       w.last_generation_time, None,
                                       random_offset, now)
    IN  IF given
        THEN [w EXCEPT !.forces[f] = [pc |-> "executing", result |-> "None"]]
        ELSE IF r.outcome = "returned"
        THEN [w EXCEPT !.last_generated_time = r.last_generated_time,
                       !.last_generation_time = r.last_generation_time,
                       !.forces[f] = [pc |-> "executing", result |-> "None"]]
        ELSE [w EXCEPT !.status.failed_manipulations = @ + 1,
                       !.forces[f] = [pc |-> "returned", result |-> "False"]]

\* the rest of force_manipulation, from the result of execute_command
force_result(w, f, outcome) ==
    IF outcome = "True"
    THEN [w EXCEPT !.status.last_manipulation_time = now,
                   !.status.successful_manipulations = @ + 1,
                   !.forces[f] = [pc |-> "returned", result |-> "True"]]
    ELSE [w EXCEPT !.status.failed_manipulations = @ + 1,
                   !.forces[f] = [pc |-> "returned", result |-> "False"]]

\* a task calls force_manipulation, with a target time or without
ForceCall(f) ==
    /\ EventLoopFree
    /\ forces[f].pc # "executing"
    /\ status.successful_manipulations + status.failed_manipulations < MaxAttempts
    /\ \E given \in BOOLEAN : \E random_offset \in RandomOffsets(gen_cfg, None, now) :
         Commit(force_manipulation(World, f, given, random_offset))
    /\ UNCHANGED outsideWorld

\* execute_command("set_time") of a forced manipulation completes
ForceExecDone(f) ==
    /\ EventLoopFree
    /\ forces[f].pc = "executing"
    /\ \E outcome \in {"True", "False", "raise"} :
         Commit(force_result(World, f, outcome))
    /\ UNCHANGED outsideWorld

\* the wall clock advances
ManipTick ==
    /\ \E s \in RunStarts : s <= now /\ now + 1 <= s + MaxRun
    /\ now' = now + 1
    /\ UNCHANGED <<winVars, genVars, connVars, schedVars, manipVars, intervalVars>>

\* TimeManipulator.is_healthy: failed / total < 0.1 in integers
is_healthy(w) ==
    IF ~w.running THEN FALSE
    ELSE IF w.status.total_manipulations = 0 THEN TRUE
    ELSE 10 * w.status.failed_manipulations < w.status.total_manipulations

\* an outside task reads the is_healthy property
IsHealthyRead ==
    /\ healthy_read' = IF is_healthy(World) THEN "True" ELSE "False"
    /\ UNCHANGED <<running, manipulation_task, consecutive_failures, manip, status,
                   forces>>
    /\ UNCHANGED <<winVars, genVars, now, connVars, schedVars, intervalVars>>

(***************************************************************************)
(* Scheduler                                                               *)
(***************************************************************************)
\* services.DeviceManager defines no is_connected, so reading it raises
\* AttributeError; the managers the tests build (MockDeviceManager, or a
\* MagicMock with is_connected set) have the attribute
has_is_connected == device_manager = "MockDeviceManager"

\* the task that runs caller c's call has a cancellation pending
cancel_pending(w, c) == c \in LoopIds /\ w.loops[c].must_cancel

\* mutant: the cancellation stays pending after it was swallowed
consume_cancel_mut(w, c) == w

\* the CancelledError is delivered to (and swallowed in) caller c's task
consume_cancel(w, c) ==
    IF c \in LoopIds THEN [w EXCEPT !.loops[c].must_cancel = FALSE] ELSE w

\* the scheduler-loop task i ends
loop_ends(w, i) == [w EXCEPT !.loops[i] = [pc |-> "done", must_cancel |-> FALSE]]

\* mutant: start() is refused in STARTING, RUNNING and STOPPING only
start_rejected_mut(s) == s \notin {"stopped", "error"}

\* if self._state != SchedulerState.STOPPED: return False
start_rejected(s) == s # "stopped"

\* mutant: start() resets the metrics
metrics_on_start_mut(m) == ZeroMetrics

\* start() assigns metrics.start_time only: the cycle counters stay
metrics_on_start(m) == m

\* mutant: a connect() that returns False is taken for a connection
device_connected_mut(outcome) == outcome \in {"True", "False"}

\* device_connected = await connect(...); if not device_connected: raise
device_connected(outcome) == outcome = "True"

\* mutant: a wait_for timeout is not swallowed by stop()
swallowed_by_stop_mut(exc) == exc = "CancelledError"

\* except asyncio.TimeoutError / except asyncio.CancelledError in stop()
swallowed_by_stop(exc) == exc \in {"TimeoutError", "CancelledError"}

\* mutant: what a callback raises leaves _trigger_callback
callback_escapes_mut(callback) == callback = "raises"

\* _trigger_callback: try: callback(...) except Exception: logger.error(...)
callback_escapes(callback) == FALSE

\* what _trigger_callback catches from the callback of an event
callback_caught(callback) == IF callback = "raises" THEN "raised" ELSE "None"

\* restart() returns result to the task c that called it: in the scheduler
\* loop _should_restart is cleared and the loop task returns; the frames of
\* the stop() and start() of an outside caller's restart() are gone
restart_returns(w, c, result) ==
    IF c \in LoopIds THEN loop_ends([w EXCEPT !.should_restart = FALSE], c)
    ELSE [w EXCEPT !.restarts[c].pc = "returned", !.restarts[c].result = result,
                   !.restarts[c].entered_at = IF @ >= max_restart_attempts
                                              THEN @ ELSE None,
                   !.starts[c] = IdleStart, !.stops[c] = IdleStop]

\* start() returns to its caller; restart() returns what it returned
start_returns(w, c, result, exc) ==
    LET w1 == [w EXCEPT !.starts[c].pc = "returned", !.starts[c].result = result,
                        !.starts[c].raised = exc]
    IN  IF c = Client THEN w1 ELSE restart_returns(w1, c, result)

\* except Exception in start()
start_failed(w, c, exc) ==
    start_returns([w EXCEPT !.state = "error",
                            !.starts[c].trace = Append(@, "error")],
                  c, "False", exc)

\* the rest of start() once the device manager is connected: the three loops
\* are created, the manipulation cycle is started, the state becomes RUNNING
\* and the on_start callback is triggered
start_launch(w, c) ==
    LET id == w.scheduler_task + 1
        w1 == [w EXCEPT !.scheduler_task = id,
                        !.loops = [j \in (DOMAIN @) \cup {id} |->
                                      IF j = id
                                      THEN [pc |-> "ready", must_cancel |-> FALSE]
                                      ELSE @[j]],
                        !.health = "running",
                        !.metrics_task = IF enable_performance_monitoring
                                         THEN "running" ELSE @]
        w2 == start_manipulation_cycle(w1)
        w3 == [w2 EXCEPT !.state = "running", !.starts[c].launched = id,
                         !.starts[c].trace = Append(@, "running"),
                         !.starts[c].callback = callback_caught(w.callbacks.on_start)]
    IN  IF callback_escapes(w.callbacks.on_start)
        THEN start_failed(w3, c, "CallbackError")
        ELSE start_returns(w3, c, "True", "None")

\* start() up to its return or to the await of connect()
start(w, c) ==
    IF start_rejected(w.state)
    THEN start_returns([w EXCEPT !.starts[c] =
                                     [IdleStart EXCEPT !.from_state = w.state]],
                       c, "False", "None")
    ELSE LET w1 == [w EXCEPT !.state = "starting", !.shutdown_event = FALSE,
                             !.metrics = metrics_on_start(@),
                             !.starts[c] = [IdleStart EXCEPT !.from_state = w.state,
                                                             !.trace = <<"starting">>]]
         IN  IF ~has_is_connected THEN start_failed(w1, c, "AttributeError")
             ELSE IF ~w1.is_connected
             THEN [w1 EXCEPT !.starts[c].pc = "connecting",
                             !.starts[c].connect = "pending"]
             ELSE start_launch(w1, c)

\* start() from the result of connect(); a cancellation of the calling task
\* is not an Exception and leaves start() (and the loop) without a return
start_connected(w, c, outcome) ==
    IF cancel_pending(w, c)
    THEN loop_ends([w EXCEPT !.starts[c].pc = "cancelled"], c)
    ELSE IF outcome = "raise"
    THEN start_failed([w EXCEPT !.starts[c].connect = "raised"],
                      c, "DeviceConnectionError")
    ELSE IF device_connected(outcome)
    THEN start_launch([w EXCEPT !.is_connected = (outcome = "True"),
                                !.starts[c].connect = outcome], c)
    ELSE start_failed([w EXCEPT !.starts[c].connect = outcome], c, "RuntimeError")

\* stop() returns to its caller; restart() goes on to its sleep
stop_returns(w, c, result, exc) ==
    LET w1 == [w EXCEPT !.stops[c].pc = "returned", !.stops[c].result = result,
                        !.stops[c].raised = exc]
    IN  IF c = Client THEN w1
        ELSE IF c \in LoopIds THEN [w1 EXCEPT !.loops[c].pc = "restart_sleep"]
        ELSE [w1 EXCEPT !.restarts[c].pc = "restart_sleep"]

\* except Exception in stop()
stop_failed(w, c, exc) == stop_returns([w EXCEPT !.state = "error"], c, "False", exc)

\* the end of stop(): the state becomes STOPPED and the on_stop callback is
\* triggered
stop_finish(w, c) ==
    LET w1 == [w EXCEPT !.state = "stopped",
                        !.stops[c].callback = callback_caught(w.callbacks.on_stop)]
    IN  IF callback_escapes(w.callbacks.on_stop)
        THEN stop_failed(w1, c, "CallbackError")
        ELSE stop_returns(w1, c, "True", "None")

\* if self.device_manager.is_connected: await self.device_manager.disconnect()
stop_disconnect(w, c) ==
    IF ~has_is_connected THEN stop_failed(w, c, "AttributeError")
    ELSE IF w.is_connected
    THEN [w EXCEPT !.stops[c].pc = "disconnecting", !.stops[c].teardown = TRUE]
    ELSE stop_finish(w, c)

\* `task and not task.done()` for entry k of tasks_to_cancel; the list holds
\* the task objects that were current when it was built
task_pending(w, c, k) ==
    LET id == w.stops[c].captured IN
    CASE k = 1 -> id # NoTask /\ w.loops[id].pc # "done"
      [] k = 2 -> id = w.scheduler_task /\ w.health \in {"running", "cancelling"}
      [] k = 3 -> id = w.scheduler_task /\ w.metrics_task \in {"running", "cancelling"}

\* task.cancel()
cancel_task(w, c, k) ==
    LET id == w.stops[c].captured IN
    CASE k = 1 -> [w EXCEPT !.loops[id].must_cancel = TRUE]
      [] k = 2 -> [w EXCEPT !.health = "cancelling"]
      [] k = 3 -> [w EXCEPT !.metrics_task = "cancelling"]

\* the for loop of stop() from entry k on, up to the next wait_for
RECURSIVE stop_tasks(_, _, _)
stop_tasks(w, c, k) ==
    IF k > 3 THEN stop_disconnect(w, c)
    ELSE IF task_pending(w, c, k)
    THEN [cancel_task(w, c, k) EXCEPT !.stops[c].pc = "await_task",
                                      !.stops[c].k = k,
                                      !.stops[c].timeout = FALSE,
                                      !.stops[c].teardown = TRUE]
    ELSE stop_tasks(w, c, k + 1)

\* tasks_to_cancel = [...] and the for loop
stop_cancel_tasks(w, c) ==
    stop_tasks([w EXCEPT !.stops[c].captured = w.scheduler_task], c, 1)

\* stop() up to its return or to its first await that suspends
stop(w, c) ==
    IF w.state = "stopped"
    THEN stop_returns([w EXCEPT !.stops[c] = [IdleStop EXCEPT !.from_state = w.state]],
                      c, "True", "None")
    ELSE LET w1 == [w EXCEPT !.state = "stopping", !.shutdown_event = TRUE,
                             !.stops[c] = [IdleStop EXCEPT !.from_state = w.state]]
         IN  IF w1.running
             THEN [cancel_manipulation(w1) EXCEPT !.stops[c].pc = "await_manipulation",
                                                  !.stops[c].teardown = TRUE]
             ELSE stop_cancel_tasks(w1, c)

\* stop() from the end of a wait_for that gave exc
stop_waited(w, c, exc) ==
    IF swallowed_by_stop(exc)
    THEN stop_tasks(consume_cancel(w, c), c, w.stops[c].k + 1)
    ELSE stop_failed(w, c, exc)

\* stop() from the result of disconnect()
stop_disconnected(w, c, outcome) ==
    IF cancel_pending(w, c)
    THEN loop_ends([w EXCEPT !.stops[c].pc = "cancelled"], c)
    ELSE IF outcome = "ok"
    THEN stop_finish([w EXCEPT !.is_connected = FALSE], c)
    ELSE stop_failed(w, c, "DeviceConnectionError")

\* if self.metrics.failed_cycles > 5
too_many_failures(failed_cycles) == failed_cycles > 5

\* if self._restart_count >= self.config.max_restart_attempts: return False
restart_refused(count) == count >= max_restart_attempts

\* restart() called by the task c (a scheduler loop or an outside task), up
\* to the first await that suspends
restart(w, c) ==
    LET w1 == IF c \in LoopIds THEN w
              ELSE [w EXCEPT !.restarts[c] =
                                 [IdleRestart EXCEPT !.entered_at = w.restart_count]]
    IN  IF restart_refused(w.restart_count)
        THEN restart_returns(w1, c, "False")
        ELSE IF c \in LoopIds THEN stop([w1 EXCEPT !.loops[c].pc = "restart_stop"], c)
        ELSE stop([w1 EXCEPT !.restarts[c].pc = "restart_stop"], c)

\* restart() after its sleep: self._restart_count += 1; return await self.start()
restart_slept(w, c) ==
    LET w1 == [w EXCEPT !.restart_count = @ + 1] IN
    IF c \in LoopIds THEN start([w1 EXCEPT !.loops[c].pc = "restart_start"], c)
    ELSE start([w1 EXCEPT !.restarts[c].pc = "restart_start"], c)

\* mutant: a disconnected device manager or an unhealthy manipulator makes
\* the component health check raise
component_health_check_mut(w, raises) ==
    IF raises \/ ~w.is_connected \/ ~is_healthy(w) THEN "raised" ELSE "returned"

\* _component_health_check: what it finds is logged only; it raises when a
\* component's attribute does (raises), as a missing is_connected would
component_health_check(w, raises) ==
    IF ~has_is_connected \/ raises THEN "raised" ELSE "returned"

\* one cycle of _scheduler_loop; the health check of the components raises
\* or not
scheduler_cycle(w, i, healthy) ==
    LET m == [w.metrics EXCEPT !.total_cycles = @ + 1] IN
    IF healthy
    THEN LET w1 == [w EXCEPT !.metrics = [m EXCEPT !.successful_cycles = @ + 1],
                             !.loops[i].pc = "sleeping"]
         IN  IF w1.should_restart /\ enable_auto_restart THEN restart(w1, i) ELSE w1
    ELSE [w EXCEPT !.metrics = [m EXCEPT !.failed_cycles = @ + 1],
                   !.should_restart = IF too_many_failures(m.failed_cycles + 1)
                                      THEN TRUE ELSE @,
                   !.loops[i].pc = "sleeping"]

\* get_status(): the dictionary is built entry by entry; "components" reads
\* device_manager.is_connected
get_status(w) ==
    IF ~has_is_connected
    THEN [pc |-> "returned", raised |-> "AttributeError", snapshot |-> "None"]
    ELSE [pc |-> "returned", raised |-> "None",
          snapshot |-> [state |-> w.state, is_running |-> w.state = "running",
                        connected |-> w.is_connected]]

\* _perform_health_check in the health-check loop: reading is_connected or
\* the callback may raise, and the loop's except Exception logs it
perform_health_check(w) ==
    IF ~has_is_connected THEN w
    ELSE [w EXCEPT !.health_callback =
                       IF w.callbacks.on_health_check = "raises" THEN "raised" ELSE @]

\* the launches of loop tasks are bounded
WithinBounds(w) == DOMAIN w.loops = LoopIds

\* an outside task calls start()
StartCall ==
    /\ EventLoopFree
    /\ starts[Client].pc # "connecting"
    /\ WithinBounds(start(World, Client))
    /\ Commit(start(World, Client))
    /\ UNCHANGED outsideWorld

\* connect() of a start() completes
StartConnectDone(c) ==
    /\ starts[c].pc = "connecting"
    /\ \E outcome \in IF device_accepts THEN {"True"} ELSE {"True", "False", "raise"} :
         /\ WithinBounds(start_connected(World, c, outcome))
         /\ Commit(start_connected(World, c, outcome))
    /\ UNCHANGED outsideWorld

\* an outside task calls stop()
StopCall ==
    /\ EventLoopFree
    /\ stops[Client].pc \notin {"await_manipulation", "await_task", "disconnecting"}
    /\ Commit(stop(World, Client))
    /\ UNCHANGED outsideWorld

\* stop_manipulation_cycle() of a stop() returns: the cancelled manipulation
\* task ended (a cancellation of the caller is swallowed there)
StopManipulationResume(c) ==
    /\ stops[c].pc = "await_manipulation"
    /\ manipulation_task # "cancelling"
    /\ Commit(stop_cancel_tasks(consume_cancel(World, c), c))
    /\ UNCHANGED outsideWorld

\* a wait_for of stop() ends: the awaited task is over (or is the caller's own)
StopTaskResume(c) ==
    /\ stops[c].pc = "await_task"
    /\ LET id == stops[c].captured IN
       CASE stops[c].k = 1 -> id = c \/ loops[id].pc = "done"
         [] stops[c].k = 2 -> id # scheduler_task \/ scheduler_health_check_task # "cancelling"
         [] stops[c].k = 3 -> id # scheduler_task \/ metrics_task # "cancelling"
    /\ Commit(stop_waited(World, c,
                          IF stops[c].timeout THEN "TimeoutError" ELSE "CancelledError"))
    /\ UNCHANGED outsideWorld

\* the 5 s of a wait_for pass before the awaited scheduler loop is over (it
\* swallowed the cancellation inside its own stop()): wait_for cancels it again
StopWaitTimeout(c) ==
    /\ stops[c].pc = "await_task"
    /\ stops[c].k = 1
    /\ ~stops[c].timeout
    /\ LET id == stops[c].captured IN
        /\ id # c
        /\ loops[id].pc # "done"
        /\ ~loops[id].must_cancel
        /\ Commit([World EXCEPT !.stops[c].timeout = TRUE,
                                !.stops[c].timed_out = TRUE,
                                !.loops[id].must_cancel = TRUE])
    /\ UNCHANGED outsideWorld

\* disconnect() of a stop() completes
StopDisconnectDone(c) ==
    /\ stops[c].pc = "disconnecting"
    /\ \E outcome \in IF device_accepts THEN {"ok"} ELSE {"ok", "raise"} :
         Commit(stop_disconnected(World, c, outcome))
    /\ UNCHANGED outsideWorld

\* the scheduler loop i runs: at its start or after its sleep of one second
SchedulerCycleRuns(i, raises) ==
    /\ EventLoopFree
    /\ loops[i].pc \in {"ready", "sleeping"}
    /\ IF loops[i].must_cancel \/ shutdown_event
       THEN Commit(loop_ends(World, i))
       ELSE /\ metrics.total_cycles < MaxCycles
            /\ Commit(scheduler_cycle(World, i,
                                      component_health_check(World, raises) = "returned"))
    /\ UNCHANGED outsideWorld

SchedulerLoopStep(i) == \E raises \in BOOLEAN : SchedulerCycleRuns(i, raises)

\* the device manager's is_connected becomes false under the running scheduler
DeviceDrops ==
    /\ EventLoopFree
    /\ is_connected
    /\ Commit([World EXCEPT !.is_connected = FALSE])
    /\ UNCHANGED outsideWorld

\* an outside task calls get_status(); nothing in it suspends
GetStatus ==
    /\ EventLoopFree
    /\ status_call' = get_status(World)
    /\ UNCHANGED <<device_manager, is_connected, state, shutdown_event, restart_count,
                   should_restart, scheduler_task, scheduler_health_check_task,
                   metrics_task, metrics, loops, starts, stops, restarts,
                   callbacks, health_callback>>
    /\ UNCHANGED <<winVars, genVars, now, connVars, manipVars, intervalVars>>

\* an outside task calls restart()
RestartCall(r) ==
    /\ EventLoopFree
    /\ restarts[r].pc \in {"idle", "returned"}
    /\ restart_count <= max_restart_attempts
    /\ Commit(restart(World, r))
    /\ UNCHANGED outsideWorld

\* the sleep of restart() ends: the counter is incremented and start() called
RestartSleepDone(c) ==
    /\ IF c \in LoopIds THEN loops[c].pc = "restart_sleep"
       ELSE restarts[c].pc = "restart_sleep"
    /\ LET w == IF cancel_pending(World, c) THEN loop_ends(World, c)
                ELSE restart_slept(World, c)
       IN  WithinBounds(w) /\ Commit(w)
    /\ UNCHANGED outsideWorld

\* an outside task registers callbacks for the three events
RegisterCallbacks ==
    /\ EventLoopFree
    /\ callbacks = NoCallbacks
    /\ callbacks' = RaisingCallbacks
    /\ UNCHANGED <<device_manager, is_connected, state, shutdown_event, restart_count,
                   should_restart, scheduler_task, scheduler_health_check_task,
                   metrics_task, metrics, loops, starts, stops, restarts,
                   status_call, health_callback>>
    /\ UNCHANGED <<winVars, genVars, now, connVars, manipVars, intervalVars>>

\* _health_check_loop wakes from its sleep with the shutdown event clear: it
\* performs the health check and sleeps again
HealthCheckLoopStep ==
    /\ EventLoopFree
    /\ ~shutdown_event
    /\ scheduler_health_check_task = "running"
    /\ Commit(perform_health_check(World))
    /\ UNCHANGED outsideWorld

\* _health_check_loop / _metrics_loop wakes with the shutdown event set: the
\* work after the sleep is done once more and the loop ends
BackgroundLoopWakes(t) ==
    /\ shutdown_event
    /\ \/ /\ t = "health"
          /\ scheduler_health_check_task = "running"
          /\ Commit([perform_health_check(World) EXCEPT !.health = "done"])
       \/ /\ t = "metrics"
          /\ metrics_task = "running"
          /\ Commit([World EXCEPT !.metrics_task = "done"])
    /\ UNCHANGED outsideWorld

\* a cancelled _health_check_loop / _metrics_loop gets CancelledError and ends
CancelledTaskEnds(t) ==
    /\ \/ /\ t = "health"
          /\ scheduler_health_check_task = "cancelling"
          /\ Commit([World EXCEPT !.health = "done"])
       \/ /\ t = "metrics"
          /\ metrics_task = "cancelling"
          /\ Commit([World EXCEPT !.metrics_task = "done"])
    /\ UNCHANGED outsideWorld

(***************************************************************************)
(* Specifications                                                          *)
(***************************************************************************)
InitWindow ==
    /\ window_cfg \in {c \in WindowConfigs : validate_time_ranges(c)}
    /\ probe = NoProbe
    /\ GenIdle
    /\ now = StartOfRun
    /\ ConnIdle
    /\ SchedIdle
    /\ ManipIdle
    /\ IntervalIdle

NextWindow == EvalWindow

SpecWindow == InitWindow /\ [][NextWindow]_vars

InitGen ==
    /\ gen_cfg \in {g \in GeneratorConfigs : validate_bounds(g)}
    /\ last_generated_time = None
    /\ last_generation_time = None
    /\ gen_call = NoCall
    /\ ready_call = NoReadyCall
    /\ now = StartOfRun
    /\ WinIdle
    /\ ConnIdle
    /\ SchedIdle
    /\ ManipIdle
    /\ IntervalIdle

NextGen == Generate \/ ShouldGenerate \/ GenTick

SpecGen == InitGen /\ [][NextGen]_vars

\* DeviceManager(max_retry_attempts, retry_backoff_base)
InitConn ==
    /\ max_retry_attempts \in 1..MaxRetryAttempts
    /\ retry_backoff_base \in 2..MaxBackoffBase
    /\ connection_status = "disconnected"
    /\ device = "None"
    /\ ip_address = "None"
    /\ connection_lock = "free"
    /\ health_check_task = "None"
    /\ reconnect_task = "None"
    /\ conn = [c \in Callers |-> IdleFrame]
    /\ disc_pc = "idle"
    /\ exec = NoExec
    /\ test = NoTest
    /\ live = NoTasks
    /\ device_accepts = FALSE
    /\ WinIdle
    /\ GenIdle
    /\ now = StartOfRun
    /\ SchedIdle
    /\ ManipIdle
    /\ IntervalIdle

NextConn ==
    \/ ClientConnect
    \/ \E c \in Callers : CreateConnectionDone(c)
    \/ \E c \in Callers : AuthenticateDone(c)
    \/ \E c \in Callers : CleanupDone(c)
    \/ \E c \in Callers : BackoffDone(c)
    \/ HealthWake
    \/ HealthProbeDone
    \/ ReconnectRun
    \/ DisconnectBegin
    \/ DisconnectFinish
    \/ ExecCall
    \/ ExecDone

SpecConn == InitConn /\ [][NextConn]_vars

\* DeviceManager(max_retry_attempts = 1), with outside callers of connect,
\* disconnect, test_connection and execute_command
InitTest ==
    /\ ConnIdle
    /\ WinIdle
    /\ GenIdle
    /\ now = StartOfRun
    /\ SchedIdle
    /\ ManipIdle
    /\ IntervalIdle

NextTest ==
    \/ ClientConnect
    \/ \E c \in Callers : CreateConnectionDone(c)
    \/ \E c \in Callers : AuthenticateDone(c)
    \/ \E c \in Callers : CleanupDone(c)
    \/ HealthWake
    \/ HealthProbeDone
    \/ ReconnectRun
    \/ DisconnectBegin
    \/ DisconnectFinish
    \/ TestCall
    \/ TestDone
    \/ ExecCall
    \/ ExecDone

SpecTest == InitTest /\ [][NextTest]_vars

\* from now on the device accepts every connect and authentication
DeviceRecovers ==
    /\ ~device_accepts
    /\ device_accepts' = TRUE
    /\ UNCHANGED <<max_retry_attempts, retry_backoff_base, connection_status, device,
                   ip_address, connection_lock, health_check_task, reconnect_task,
                   conn, disc_pc, exec, test, live>>
    /\ UNCHANGED <<winVars, genVars, now, schedVars, manipVars, intervalVars>>

\* the manager with its health loop and reconnection task, outside callers of
\* connect and disconnect, and a device that recovers at some time
NextReconn ==
    \/ ClientConnect
    \/ \E c \in Callers : CreateConnectionDone(c)
    \/ \E c \in Callers : AuthenticateDone(c)
    \/ \E c \in Callers : CleanupDone(c)
    \/ HealthWake
    \/ HealthProbeDone
    \/ ReconnectRun
    \/ DisconnectBegin
    \/ DisconnectFinish
    \/ DeviceRecovers

\* the event loop runs every task that can run: the sleeps end, the awaited
\* device calls complete (wait_for and the executor bound them), and
\* asyncio.Lock wakes its waiters in order
FairReconn ==
    /\ WF_vars(HealthWake)
    /\ WF_vars(HealthProbeDone)
    /\ SF_vars(ReconnectRun)
    /\ WF_vars(DisconnectFinish)
    /\ \A c \in Callers : /\ WF_vars(CreateConnectionDone(c))
                          /\ WF_vars(AuthenticateDone(c))
                          /\ WF_vars(CleanupDone(c))

SpecReconn == InitTest /\ [][NextReconn]_vars /\ FairReconn

\* IntervalManager(min_seconds, max_seconds, jitter_factor)
InitInterval ==
    /\ interval_cfg \in {c \in IntervalConfigs : valid_interval_config(c)}
    /\ interval_call = NoInterval
    /\ WinIdle
    /\ GenIdle
    /\ now = StartOfRun
    /\ ConnIdle
    /\ SchedIdle
    /\ ManipIdle

NextInterval == CalculateInterval

SpecInterval == InitInterval /\ [][NextInterval]_vars

\* Scheduler(device_manager, time_manipulator) with the default SchedulerConfig;
\* callers are the tasks that may call its start() and stop()
SchedulerInit(callers) ==
    /\ device_manager \in {"DeviceManager", "MockDeviceManager"}
    /\ is_connected = FALSE
    /\ state = "stopped"
    /\ shutdown_event = FALSE
    /\ restart_count = 0
    /\ should_restart = FALSE
    /\ scheduler_task = NoTask
    /\ scheduler_health_check_task = "None"
    /\ metrics_task = "None"
    /\ metrics = ZeroMetrics
    /\ loops = [i \in LoopIds |-> NoLoop]
    /\ starts = [c \in callers |-> IdleStart]
    /\ stops = [c \in callers |-> IdleStop]
    /\ restarts = [r \in callers \cap Restarters |-> IdleRestart]
    /\ status_call = NoStatusCall
    /\ callbacks = NoCallbacks
    /\ health_callback = "None"
    /\ ManipIdle
    /\ IntervalIdle
    /\ WinIdle
    /\ GenIdle
    /\ now = StartOfRun
    /\ ConnIdle

InitSched == SchedulerInit(SchedCallers)

NextSched ==
    \/ StartCall
    \/ StopCall
    \/ \E c \in SchedCallers : StartConnectDone(c)
    \/ \E c \in SchedCallers : StopManipulationResume(c)
    \/ \E c \in SchedCallers : StopTaskResume(c)
    \/ \E c \in SchedCallers : StopWaitTimeout(c)
    \/ \E c \in SchedCallers : StopDisconnectDone(c)
    \/ \E i \in LoopIds : SchedulerLoopStep(i)
    \/ \E i \in LoopIds : RestartSleepDone(i)
    \/ \E t \in {"health", "metrics"} : BackgroundLoopWakes(t)
    \/ \E t \in {"health", "metrics"} : CancelledTaskEnds(t)
    \/ ManipCancelled

SpecSched == InitSched /\ [][NextSched]_vars

\* the scheduler with an outside task that asks for its status
NextStatus == NextSched \/ GetStatus

SpecStatus == InitSched /\ [][NextStatus]_vars

\* the scheduler with callbacks registered by an outside task
NextCallback == NextSched \/ RegisterCallbacks \/ HealthCheckLoopStep

SpecCallback == InitSched /\ [][NextCallback]_vars

\* the scheduler with outside tasks that call restart()
NextRestart ==
    \/ \E r \in Restarters : RestartCall(r)
    \/ \E c \in LoopIds \cup Restarters : RestartSleepDone(c)
    \/ \E c \in RestartCallers : StartConnectDone(c)
    \/ \E c \in RestartCallers : StopManipulationResume(c)
    \/ \E c \in RestartCallers : StopTaskResume(c)
    \/ \E c \in RestartCallers : StopWaitTimeout(c)
    \/ \E c \in RestartCallers : StopDisconnectDone(c)
    \/ \E i \in LoopIds : SchedulerLoopStep(i)
    \/ \E t \in {"health", "metrics"} : BackgroundLoopWakes(t)
    \/ \E t \in {"health", "metrics"} : CancelledTaskEnds(t)
    \/ ManipCancelled

InitRestart == SchedulerInit(RestartCallers)

SpecRestart == InitRestart /\ [][NextRestart]_vars

\* the outside task starts the scheduler once
FirstStart == StartCall /\ state = "stopped" /\ scheduler_task = NoTask

\* the scheduler left to itself after its start, with a device that from
\* some time accepts every connect and disconnect
NextAuto ==
    \/ FirstStart
    \/ DeviceRecovers
    \/ \E c \in SchedCallers : StartConnectDone(c)
    \/ \E c \in SchedCallers : StopManipulationResume(c)
    \/ \E c \in SchedCallers : StopTaskResume(c)
    \/ \E c \in SchedCallers : StopDisconnectDone(c)
    \/ \E i \in LoopIds : SchedulerLoopStep(i)
    \/ \E i \in LoopIds : RestartSleepDone(i)
    \/ \E t \in {"health", "metrics"} : BackgroundLoopWakes(t)
    \/ \E t \in {"health", "metrics"} : CancelledTaskEnds(t)
    \/ ManipCancelled

\* the event loop runs every task that can run: sleeps end, the awaited
\* calls of the device manager complete, cancelled tasks end
FairAuto ==
    /\ WF_vars(ManipCancelled)
    /\ \A c \in SchedCallers : /\ WF_vars(StartConnectDone(c))
                               /\ WF_vars(StopManipulationResume(c))
                               /\ WF_vars(StopTaskResume(c))
                               /\ WF_vars(StopDisconnectDone(c))
    /\ \A i \in LoopIds : WF_vars(SchedulerLoopStep(i)) /\ WF_vars(RestartSleepDone(i))
    /\ \A t \in {"health", "metrics"} : WF_vars(CancelledTaskEnds(t))

SpecAuto == InitSched /\ [][NextAuto]_vars /\ FairAuto

\* the scheduler left to itself after its start, with its manipulation loop
\* at work and a device manager that can lose its connection
NextCycle == NextAuto \/ DeviceDrops \/ ManipLoopStep \/ ManipExecDone

SpecCycle == InitSched /\ [][NextCycle]_vars

\* TimeManipulator(device_manager, ManipConfig)
InitManip ==
    /\ window_cfg = DefaultWindow
    /\ probe = NoProbe
    /\ gen_cfg = ManipGenerator
    /\ last_generated_time = None
    /\ last_generation_time = None
    /\ gen_call = NoCall
    /\ ready_call = NoReadyCall
    /\ now \in RunStarts
    /\ ManipIdle
    /\ IntervalIdle
    /\ SchedIdle
    /\ ConnIdle

NextManip ==
    \/ StartCycle
    \/ StopCycle
    \/ ManipLoopStep
    \/ ManipExecDone
    \/ ManipCancelled
    \/ \E f \in Forcers : ForceCall(f)
    \/ \E f \in Forcers : ForceExecDone(f)
    \/ ManipTick

SpecManip == InitManip /\ [][NextManip]_vars

\* the manipulator with an outside task that reads is_healthy
NextHealthy == NextManip \/ IsHealthyRead

SpecHealthy == InitManip /\ [][NextHealthy]_vars

\* the instants the runs through a failure pause start at: inside the active
\* window, and five seconds before 08:00
PauseStarts == { DateTime(0, HHMM(7, 52)), DateTime(0, HHMM(7, 59) + 55) }

\* TimeManipulator(device_manager, ManipConfig)
InitPause ==
    /\ window_cfg = DefaultWindow
    /\ probe = NoProbe
    /\ gen_cfg = ManipGenerator
    /\ last_generated_time = None
    /\ last_generation_time = None
    /\ gen_call = NoCall
    /\ ready_call = NoReadyCall
    /\ now \in PauseStarts
    /\ ManipIdle
    /\ IntervalIdle
    /\ SchedIdle
    /\ ConnIdle

\* the wall clock advances
PauseTick ==
    /\ \E s \in PauseStarts : s <= now /\ now + 1 <= s + MaxPauseRun
    /\ now' = now + 1
    /\ UNCHANGED <<winVars, genVars, connVars, schedVars, manipVars, intervalVars>>

\* the manipulator with callers of its start and stop, followed long enough
\* for a failure pause to end
NextPause ==
    \/ StartCycle
    \/ StopCycle
    \/ ManipLoopStep
    \/ ManipExecDone
    \/ ManipCancelled
    \/ PauseTick

SpecPause == InitPause /\ [][NextPause]_vars

\* TimeManipulator(device_manager, config) for every accepted window
\* configuration, its cycle started around every boundary time of day of a
\* Monday, a Saturday and a Sunday
InitLoop ==
    /\ window_cfg \in {c \in WindowConfigs : validate_time_ranges(c)}
    /\ probe = NoProbe
    /\ gen_cfg = [min_time |-> window_cfg.min_time, max_time |-> window_cfg.max_time,
                  min_interval |-> ManipConfig.min_interval_seconds]
    /\ last_generated_time = None
    /\ last_generation_time = None
    /\ gen_call = NoCall
    /\ ready_call = NoReadyCall
    /\ now \in {DateTime(day, tod) : day \in {0, 5, 6}, tod \in ProbeTimes(window_cfg)}
    /\ ManipIdle
    /\ IntervalIdle
    /\ SchedIdle
    /\ ConnIdle

\* the wall clock advances
LoopTick ==
    /\ \E tod \in ProbeTimes(window_cfg) :
         tod <= time_of(now) /\ time_of(now) + 1 <= tod + MaxLoopRun
    /\ now' = now + 1
    /\ UNCHANGED <<winVars, genVars, connVars, schedVars, manipVars, intervalVars>>

NextLoop ==
    \/ StartCycle
    \/ StopCycle
    \/ ManipLoopStep
    \/ ManipExecDone
    \/ ManipCancelled
    \/ LoopTick

SpecLoop == InitLoop /\ [][NextLoop]_vars

(***************************************************************************)
(* Claims                                                                  *)
(***************************************************************************)

\* the attempts and sleeps of a connect() whose first k attempts failed:
\* attempt 1, sleep base^0, attempt 2, sleep base^1, ..., attempt k + 1
ExpectedLog(k, base) ==
    [j \in 1..(2 * k + 1) |->
        IF j % 2 = 1 THEN [kind |-> "attempt", n |-> (j + 1) \div 2]
        ELSE [kind |-> "sleep", n |-> Pow(base, (j \div 2) - 1)]]

\* the error connect() is documented to raise for a failure mode
ErrorOf(mode) ==
    CASE mode = "timeout" -> "DeviceTimeoutError"
      [] mode = "connection" -> "DeviceConnectionError"
      [] mode = "authentication" -> "DeviceAuthenticationError"

\* C1: when the first k < max_retry_attempts attempts of connect() fail and
\* attempt k + 1 succeeds, connect returns True, the status is AUTHENTICATED and
\* exactly k backoff sleeps occurred, the i-th (i = 0..k-1) of
\* retry_backoff_base^i seconds, between attempt i + 1 and attempt i + 2.
C1_RetryThenSuccess ==
    \A c \in Callers :
        conn[c].pc = "returned" =>
            /\ conn[c].attempt < max_retry_attempts
            /\ conn[c].result = "True"
            /\ conn[c].exit_status = "authenticated"
            /\ conn[c].log = ExpectedLog(conn[c].attempt, retry_backoff_base)

\* C1 witness: with max_retry_attempts = 3 and base 2 the first two attempts
\* failed, the third succeeded and connect returned.
C1_Witness ==
    /\ max_retry_attempts = 3
    /\ retry_backoff_base = 2
    /\ conn["client"].pc = "returned"
    /\ conn["client"].attempt = 2

C3_NotConnectedFailsFast ==
    [][(exec' # exec /\ exec.pc # "io" /\ connection_status # "authenticated") =>
         /\ exec'.pc = "done"
         /\ exec'.outcome = "DeviceConnectionError"
         /\ ~exec'.io_started
         /\ connection_status' = connection_status
         /\ device' = device]_vars

\* C3 witness: a command was refused while the status was RECONNECTING and the
\* handle of the failed session was still held.
C3_Witness ==
    /\ exec.pc = "done"
    /\ exec.outcome = "DeviceConnectionError"
    /\ exec.status_before = "reconnecting"
    /\ device # "None"

\* C4: start() called in a state other than STOPPED returns False at once: it
\* assigns no state, makes no connect call, creates no loop task and does not
\* start the manipulation cycle, so the state and the tasks stay as they were.
C4_StartRejectedUnlessStopped ==
    [][\A c \in SchedCallers :
         (starts[c].pc # "connecting" /\ starts'[c] # starts[c] /\ state # "stopped") =>
            /\ starts'[c].pc = "returned"
            /\ starts'[c].result = "False"
            /\ starts'[c].from_state = state
            /\ starts'[c].trace = <<>>
            /\ starts'[c].connect = "None"
            /\ starts'[c].launched = NoTask
            /\ state' = state
            /\ UNCHANGED <<is_connected, scheduler_task, scheduler_health_check_task,
                           metrics_task, manipulation_task, running, metrics>>]_vars

\* C4 witness: right after a start() that succeeded (one loop task, no cycle
\* run yet) the same caller called start() again: it returned False and the
\* state is still RUNNING.
C4_Witness ==
    /\ starts[Client].pc = "returned"
    /\ starts[Client].from_state = "running"
    /\ starts[Client].result = "False"
    /\ state = "running"
    /\ scheduler_task = 1
    /\ metrics.total_cycles = 0

C7_CountersSurviveRestart ==
    [][/\ metrics'.total_cycles >= metrics.total_cycles
       /\ metrics'.successful_cycles >= metrics.successful_cycles
       /\ metrics'.failed_cycles >= metrics.failed_cycles
       /\ (stops'[Client] # stops[Client]) => metrics' = metrics
       /\ \A c \in SchedCallers :
            (starts'[c] # starts[c]) =>
               /\ metrics' = metrics
               /\ (/\ starts'[c].pc = "returned"
                   /\ starts'[c].from_state = "stopped"
                   /\ starts'[c].raised = "None") => state' = "running"]_vars

\* C7 witness: start(), one successful and one failed cycle, stop() and start()
\* again: the second loop task is launched, the state is RUNNING and the
\* counters still hold the two cycles.
C7_Witness ==
    /\ starts[Client].pc = "returned"
    /\ starts[Client].result = "True"
    /\ starts[Client].launched = 2
    /\ stops[Client].pc = "returned"
    /\ stops[Client].from_state = "running"
    /\ stops[Client].result = "True"
    /\ state = "running"
    /\ restart_count = 0
    /\ metrics = [total_cycles |-> 2, successful_cycles |-> 1, failed_cycles |-> 1]

\* C8: after any sequence of attempts of the manipulation loop and of
\* force_manipulation the total equals the successes plus the failures:
\* total_manipulations = successful_manipulations + failed_manipulations.
C8_TotalIsSum ==
    status.total_manipulations =
        status.successful_manipulations + status.failed_manipulations

\* C9: every call of generate_random_timestamp(date), the second and later calls
\* on the same generator included, returns without error a timestamp on `date`
\* whose time of day lies in [min_time, max_time].
C9_GeneratedInRange ==
    gen_call.outcome # "none" =>
        /\ gen_call.outcome = "returned"
        /\ date_of(gen_call.value) = date_of(gen_call.date)
        /\ gen_cfg.min_time <= time_of(gen_call.value)
        /\ time_of(gen_call.value) <= gen_cfg.max_time

\* C10: on the weekly off-day (weekday index 6) is_in_manipulation_window and
\* is_manipulation_active are both false, whatever the time of day.
C10_OffDayNeverInWindow ==
    (probe.t # None /\ weekday(probe.t) = 6) =>
        (~probe.in_window /\ ~probe.active)

\* C10 witness: the predicates were evaluated on the off-day at a time of day
\* inside the window and before 08:00.
C10_Witness ==
    /\ probe.t # None
    /\ weekday(probe.t) = 6
    /\ window_cfg.window_start <= time_of(probe.t)
    /\ time_of(probe.t) <= window_cfg.window_end
    /\ time_of(probe.t) < eight_am

\* C11: on a weekday (Monday to Saturday) is_in_manipulation_window(t) is true
\* exactly when window_start <= time of day of t <= window_end: true at
\* window_start and at window_end, false one second before window_start and
\* one second after window_end.
C11_WindowBoundsInclusive ==
    (probe.t # None /\ weekday(probe.t) < 6) =>
        LET tod == time_of(probe.t) IN
        /\ probe.in_window <=> (window_cfg.window_start <= tod /\ tod <= window_cfg.window_end)
        /\ (tod = window_cfg.window_start \/ tod = window_cfg.window_end) => probe.in_window
        /\ (tod = window_cfg.window_start - 1 \/ tod = window_cfg.window_end + 1)
               => ~probe.in_window

\* C11 witness: the predicate was evaluated on a Monday at exactly window_end
\* and gave true.
C11_Witness ==
    /\ probe.t # None
    /\ weekday(probe.t) = 0
    /\ time_of(probe.t) = window_cfg.window_end
    /\ probe.in_window

\* C12: calculate_interval returns an integer >= 1; with jitter_factor = 0 the
\* result lies in [min_seconds, max_seconds]; and in general it is
\* base + jitter clamped below at 1, for a base in [min_seconds, max_seconds]
\* and a jitter in [-floor(base * jitter_factor), floor(base * jitter_factor)].
C12_IntervalRange ==
    (interval_call.final # None) =>
        /\ interval_call.final \in Nat
        /\ interval_call.final >= 1
        /\ (interval_cfg.jitter_percent = 0) =>
              /\ interval_cfg.min_seconds <= interval_call.final
              /\ interval_call.final <= interval_cfg.max_seconds
        /\ \E base \in interval_cfg.min_seconds .. interval_cfg.max_seconds :
             \E jitter \in (0 - ((base * interval_cfg.jitter_percent) \div 100)) ..
                           ((base * interval_cfg.jitter_percent) \div 100) :
                interval_call.final = IF base + jitter < 1 THEN 1 ELSE base + jitter

\* C12 witness: with min_seconds = 1 and jitter_factor = 1.0 the base 1 and the
\* jitter -1 were drawn and the result was clamped to 1.
C12_Witness ==
    /\ interval_cfg.jitter_percent = 100
    /\ interval_call.base = 1
    /\ interval_call.jitter = 0 - 1
    /\ interval_call.final = 1

\* the state disconnect() is to leave: DISCONNECTED, no address, port and
\* credentials, no device handle, no health or reconnection task running
Disconnected(m) ==
    /\ m.connection_status = "disconnected"
    /\ m.ip_address = "None"
    /\ m.device = "None"
    /\ m.health_check_task \in {"None", "done"}
    /\ m.reconnect_task \in {"None", "done"}

\* C13: whenever disconnect() can run (the lock is free) it ends in that state,
\* whatever the status it starts from, and a second disconnect() changes
\* nothing of it; and every step that ends a disconnect() leaves that state.
C13_DisconnectIdempotent ==
    /\ [](connection_lock = "free" =>
            /\ Disconnected(disconnect(Manager))
            /\ disconnect(disconnect(Manager)) = disconnect(Manager))
    /\ [][(\/ disc_pc = "cleanup" /\ disc_pc' = "idle"
           \/ ip_address # "None" /\ ip_address' = "None") =>
             /\ connection_status' = "disconnected"
             /\ ip_address' = "None"
             /\ device' = "None"
             /\ health_check_task' \in {"None", "done"}
             /\ reconnect_task' \in {"None", "done"}
             /\ connection_lock' = "free"]_vars

\* C13 witness: after a connect() that succeeded, a disconnect() cancelled the
\* health task and dropped the handle; the manager is in the state that a
\* further disconnect() leaves as it is.
C13_Witness ==
    /\ conn["client"].pc = "returned"
    /\ health_check_task = "done"
    /\ reconnect_task = "done"
    /\ disc_pc = "idle"
    /\ connection_lock = "free"
    /\ Disconnected(Manager)
    /\ disconnect(Manager) = Manager

\* C14: test_connection called in a status other than AUTHENTICATED returns
\* False without reaching the device; called in AUTHENTICATED it starts one
\* device-time read and returns True exactly when the read returns without
\* error within the 5 s; it returns True or False, never raises, and no step
\* of it changes the connection status.
C14_TestConnection ==
    /\ [](test.pc = "done" => test.result \in {"True", "False"})
    /\ [][(test' # test) =>
            /\ connection_status' = connection_status
            /\ device' = device
            /\ (test.pc # "io" /\ connection_status # "authenticated") =>
                  /\ test'.pc = "done"
                  /\ ~test'.io_started
                  /\ test'.result = "False"
            /\ (test.pc # "io" /\ connection_status = "authenticated") =>
                  /\ test'.pc = "io"
                  /\ test'.io_started
            /\ (test.pc = "io") =>
                  /\ test'.pc = "done"
                  /\ test'.result = "True" <=> test'.read = "ok"]_vars

\* C14 witness: called in AUTHENTICATED, test_connection read the device time
\* and returned True.
C14_Witness ==
    /\ test.pc = "done"
    /\ test.status_before = "authenticated"
    /\ test.io_started
    /\ test.read = "ok"
    /\ test.result = "True"

\* C15: execute_command called in AUTHENTICATED with an unknown command name,
\* or with set_time and no target time, raises the command error, makes no
\* device call and leaves the status AUTHENTICATED.
C15_BadCommandRejected ==
    [][(/\ exec' # exec
        /\ exec.pc # "io"
        /\ connection_status = "authenticated"
        /\ exec'.command \in {"unknown", "set_time_without_target"}) =>
          /\ exec'.pc = "done"
          /\ exec'.outcome = "DeviceCommandError"
          /\ ~exec'.io_started
          /\ exec'.calls = 0
          /\ connection_status' = "authenticated"]_vars

\* C15 witness: set_time without a target time was refused in AUTHENTICATED
\* with the command error, and no device call was made.
C15_Witness ==
    /\ exec.pc = "done"
    /\ exec.command = "set_time_without_target"
    /\ exec.status_before = "authenticated"
    /\ exec.outcome = "DeviceCommandError"
    /\ exec.calls = 0
    /\ connection_status = "authenticated"

\* C16: when the device call of execute_command does not end within the 10 s,
\* the call raises the timeout error carrying the command name; an
\* execute_command makes one device call, whatever its outcome, and its
\* failure leaves the connection status as it was.
C16_CommandTimeout ==
    [][(exec' # exec /\ exec.pc = "io") =>
          /\ exec'.pc = "done"
          /\ exec'.calls = 1
          /\ exec'.command = exec.command
          /\ connection_status' = connection_status
          /\ (exec'.device_call = "timeout") =>
                /\ exec'.outcome = "DeviceTimeoutError"
                /\ exec'.operation = exec.command]_vars

\* C16 witness: the device call of set_time timed out: the timeout error
\* names set_time, one device call was made and the status is still
\* AUTHENTICATED.
C16_Witness ==
    /\ exec.pc = "done"
    /\ exec.command = "set_time"
    /\ exec.device_call = "timeout"
    /\ exec.outcome = "DeviceTimeoutError"
    /\ exec.operation = "set_time"
    /\ exec.calls = 1
    /\ connection_status = "authenticated"


\* C17: whatever the sequence and the interleaving of restart() calls, from
\* the scheduler loop and from outside tasks, _restart_count never exceeds
\* max_restart_attempts, and a restart() called at the bound returns False
\* without having stopped or started anything
C17_RestartCountBounded ==
    /\ restart_count <= max_restart_attempts
    /\ \A r \in Restarters :
         /\ restarts[r].pc \in {"restart_stop", "restart_sleep", "restart_start"}
                => restarts[r].entered_at < max_restart_attempts
         /\ restarts[r].entered_at >= max_restart_attempts
                => restarts[r].pc = "returned" /\ restarts[r].result = "False"


\* C18: get_status() never raises, whatever the state of the scheduler and of
\* the connection, before the first start() included, and what it returns is
\* the state the scheduler is in (which the call leaves as it is)
C18_GetStatusNeverRaises ==
    [][status_call' # status_call
           => /\ status_call'.raised = "None"
              /\ status_call'.snapshot.state = state
              /\ state' = state /\ is_connected' = is_connected]_vars


\* C19: an exception raised by a registered on_start, on_stop or
\* on_health_check callback neither leaves nor changes the outcome of the
\* operation that triggered it: the start() returns True with the scheduler
\* RUNNING, the stop() returns True with the scheduler STOPPED, and the
\* health-check loop stays in its loop
C19_CallbackErrorsContained ==
    /\ [](\A c \in SchedCallers :
            /\ starts[c].callback = "raised"
                   => /\ starts[c].pc = "returned"
                      /\ starts[c].result = "True"
                      /\ starts[c].raised = "None"
                      /\ starts[c].trace = <<"starting", "running">>
            /\ stops[c].callback = "raised"
                   => /\ stops[c].pc = "returned"
                      /\ stops[c].result = "True"
                      /\ stops[c].raised = "None")
    /\ [][\A c \in SchedCallers :
            /\ starts[c]' # starts[c] /\ starts[c]'.callback = "raised"
                   => state' = "running"
            /\ stops[c]' # stops[c] /\ stops[c]'.callback = "raised"
                   => state' = "stopped"]_vars
    /\ [][health_callback' # health_callback /\ ~shutdown_event
              => /\ health_callback' = "raised"
                 /\ scheduler_health_check_task' = "running"]_vars

\* the three callbacks have raised: in a start() and a stop() that returned
\* True, and in the health-check loop
C19_Witness ==
    /\ callbacks = RaisingCallbacks
    /\ starts[Client].callback = "raised" /\ starts[Client].result = "True"
    /\ stops[Client].callback = "raised" /\ stops[Client].result = "True"
    /\ health_callback = "raised"
    /\ state = "stopped"


\* C20: through connect(), the reconnection started by the health monitor and
\* disconnect(), a device session is opened (a ZK handle is connected) only
\* while the manager holds no handle that was connected and not disconnected
\* since: at most one session is open at any time
C20_OneSessionAtATime ==
    [][\A c \in DOMAIN conn :
           conn[c].pc = "creating" /\ conn[c]'.pc = "authenticating"
               => device = "None"]_vars


\* a connect() of caller c is inside its attempt sequence
InSequence(c) == conn[c].pc \in {"creating", "authenticating", "cleanup", "backoff"}

\* C21: at most one connect() attempt sequence is in progress: the sequence
\* in progress holds the lock, and a connect() (of an outside caller or of
\* the reconnection task) begins its first attempt only when no other
\* sequence is in progress
C21_OneAttemptSequence ==
    /\ [](/\ ~(InSequence("client") /\ InSequence("reconnect"))
          /\ \A c \in Callers : InSequence(c) <=> connection_lock = c)
    /\ [][\A c \in Callers :
            ~InSequence(c) /\ InSequence(c)'
                => \A d \in Callers \ {c} : ~InSequence(d) /\ ~InSequence(d)']_vars

\* the reconnection task waits for the lock while the outside caller's
\* connect() is in the backoff sleep before its second attempt
C21_Witness ==
    /\ reconnect_task = "waitlock"
    /\ conn["client"].pc = "backoff"
    /\ connection_lock = "client"


\* the device probe of a test_connection is in flight: the one of the health
\* loop or the one of an outside caller
ProbeRunning == health_check_task = "probing" \/ test.pc = "io"

\* C22: the device probe of test_connection, run by the health loop or
\* called from outside, never executes while a connect() attempt sequence
\* (of an outside caller or of the reconnection) or the teardown of a
\* disconnect() is in progress
C22_ProbeSerialized ==
    ProbeRunning => /\ \A c \in Callers : ~InSequence(c)
                    /\ disc_pc # "cleanup"


\* C23: should_generate_new_time() is True while nothing was generated; after
\* a generation at g it is False when now - g < min_interval and True when
\* now - g >= min_interval; the call leaves the generator as it was
C23_ReadyAfterInterval ==
    /\ [](ready_call.pc = "returned"
            => /\ ready_call.last_stamp = None => ready_call.result
               /\ ready_call.last_stamp # None
                     => (ready_call.result
                            <=> ~(ready_call.clock - ready_call.last_stamp
                                      < gen_cfg.min_interval)))
    /\ [][ready_call' # ready_call
             => /\ last_generation_time' = last_generation_time
                /\ last_generated_time' = last_generated_time
                /\ ready_call'.last_stamp = last_generation_time
                /\ ready_call'.clock = now]_vars

\* a call made exactly min_interval seconds after a generation returned True
C23_Witness ==
    /\ ready_call.pc = "returned"
    /\ ready_call.last_stamp # None
    /\ ready_call.clock - ready_call.last_stamp = gen_cfg.min_interval
    /\ ready_call.result


\* C24: a TimeManipulator whose manipulation cycle was never started and
\* that has attempted nothing reports is_healthy = True
C24_HealthyBeforeStart ==
    [][healthy_read' # healthy_read /\ ~running /\ manipulation_task = "None"
          /\ status = ZeroStatus
            => healthy_read' = "True"]_vars

\* C25: at every timestamp an iteration of the action loop awaits exactly one
\* of its three coroutines: the attempt iff the day is a working day and
\* window start <= time of day < 08:00 and time of day <= window end; the wait
\* for the window's end iff the time is in the window and no attempt is due;
\* the wait for the next window otherwise. An attempt is only due in the window.
IsActionDue(c, t) ==
    /\ weekday(t) # 6
    /\ c.window_start <= time_of(t) /\ time_of(t) < HHMM(8, 0)
    /\ time_of(t) <= c.window_end

IsInWindow(c, t) ==
    /\ weekday(t) # 6
    /\ c.window_start <= time_of(t) /\ time_of(t) <= c.window_end

C25_ThreeBranches ==
    [][ManipLoopStep /\ running /\ manip.pc # "pausing" =>
         /\ manip'.branch \in {"_perform_manipulation", "_sleep_until_window_end",
                               "_sleep_until_next_window"}
         /\ manip'.branch = "_perform_manipulation" <=> IsActionDue(window_cfg, now)
         /\ manip'.branch = "_sleep_until_window_end" <=>
              IsInWindow(window_cfg, now) /\ ~IsActionDue(window_cfg, now)
         /\ manip'.branch = "_sleep_until_next_window" <=>
              ~IsInWindow(window_cfg, now)
         /\ IsActionDue(window_cfg, now) => IsInWindow(window_cfg, now)]_vars

\* the loop waits for the window's end at 08:00:00 sharp of a working day
C25_Witness ==
    /\ manip.branch = "_sleep_until_window_end"
    /\ manip.pc = "sleeping"
    /\ weekday(now) # 6
    /\ time_of(now) = HHMM(8, 0)
    /\ window_cfg.window_end > HHMM(8, 0)

\* C26: a health-loop tick whose test_connection is false sets the status to
\* reconnecting and spawns a reconnection to the stored address unless one is
\* running; never are two reconnection tasks alive; and from a successful
\* connect to the next disconnect exactly one health-monitoring loop is alive.
FailedTick ==
    \/ HealthProbeResult(FALSE)
    \/ HealthWake /\ not_connected(device, connection_status)

HealthLoopAlive(task) == task \in {"sleeping", "probing"}

TickSpawns ==
    FailedTick =>
        /\ connection_status' = "reconnecting"
        /\ reconnect_task \in {"None", "done"} =>
              reconnect_task' = "pending" /\ live'.reconnect = 1
        /\ reconnect_task \notin {"None", "done"} =>
              reconnect_task' = reconnect_task /\ live'.reconnect = live.reconnect

ConnectStartsLoop ==
    \A c \in Callers :
        conn[c].pc = "authenticating" /\ conn'[c].result = "True" =>
            HealthLoopAlive(health_check_task') /\ live'.health = 1

LoopEndsAtDisconnect ==
    HealthLoopAlive(health_check_task) /\ ~HealthLoopAlive(health_check_task') =>
        disc_pc' = "cleanup" \/ ip_address' = "None"

ReconnectsToStored ==
    reconnect_task' = "connecting" /\ reconnect_task # "connecting" =>
        ip_address # "None" /\ ip_address' = ip_address

C26_HealthTick ==
    /\ [](live.reconnect <= 1)
    /\ [](live.health <= 1)
    /\ [](HealthLoopAlive(health_check_task) => live.health = 1)
    /\ [][TickSpawns]_vars
    /\ [][ConnectStartsLoop]_vars
    /\ [][LoopEndsAtDisconnect]_vars
    /\ [][ReconnectsToStored]_vars

\* a failed tick finds the earlier reconnection still in its retry sequence
\* and spawns nothing, while the one health loop goes on
C26_Witness ==
    /\ connection_status = "reconnecting"
    /\ reconnect_task = "connecting"
    /\ conn["reconnect"].pc = "backoff"
    /\ health_check_task = "sleeping"
    /\ live = [health |-> 1, reconnect |-> 1]

\* C27: while the health loop lives (from a successful connect to the next
\* disconnect) a reconnection that fails leaves the status error, ends its
\* task and leaves the loop alive; the loop then spawns a new reconnection on
\* a later tick (unless an outside connect restored the session or a
\* disconnect ended the loop); and once the device accepts every connect and
\* authentication, the status becomes authenticated again.
ReconnectionFails ==
    conn["reconnect"].pc # "raised" /\ conn'["reconnect"].pc = "raised"

FailureNotFatal ==
    ReconnectionFails /\ HealthLoopAlive(health_check_task) =>
        /\ connection_status' = "error"
        /\ reconnect_task' = "done"
        /\ health_check_task' = health_check_task

AfterFailure ==
    /\ HealthLoopAlive(health_check_task)
    /\ connection_status = "error"
    /\ reconnect_task = "done"
    /\ conn["reconnect"].pc = "raised"

Respawned == reconnect_task = "pending" /\ connection_status = "reconnecting"

Restored == connection_status = "authenticated" \/ ~HealthLoopAlive(health_check_task)

C27_ReconnectionRecovers ==
    /\ [][FailureNotFatal]_vars
    /\ AfterFailure ~> (Respawned \/ Restored)
    /\ (device_accepts /\ HealthLoopAlive(health_check_task)) ~> Restored

\* after an outside connect failed under the running health loop, the device
\* recovered and the loop's own reconnection restored the session
C27_Witness ==
    /\ device_accepts
    /\ HealthLoopAlive(health_check_task)
    /\ conn["client"].pc = "raised"
    /\ conn["reconnect"].pc = "returned"
    /\ conn["reconnect"].result = "True"
    /\ reconnect_task = "done"
    /\ connection_status = "authenticated"

\* C28: while a connect / reconnect attempt sequence or a disconnect holds the
\* connection lock, only the holder changes the connection status, so during
\* an attempt sequence the status is connecting or connected (and the
\* sequence ends in authenticated or error).
HolderStep ==
    IF connection_lock \in Callers
    THEN conn'[connection_lock] # conn[connection_lock]
    ELSE disc_pc' # disc_pc

C28_StatusSerialized ==
    /\ [][connection_lock # "free" /\ connection_status' # connection_status
            => HolderStep]_vars
    /\ [](connection_lock \in Callers =>
            connection_status \in {"connecting", "connected"})

\* C29: a cycle that brings failed_cycles above 5 sets the restart flag; and
\* with the flag set, the scheduler running, auto-restart enabled and restart
\* attempts left, the next iteration of the cycle loop calls restart() and
\* leaves the loop, whether its own cycle succeeds or fails.
FlagSet ==
    metrics'.failed_cycles > metrics.failed_cycles /\ metrics'.failed_cycles > 5
        => should_restart'

RestartDue ==
    /\ should_restart
    /\ state = "running"
    /\ enable_auto_restart
    /\ restart_count < max_restart_attempts

InRestart(i) == loops[i].pc \in {"restart_stop", "restart_sleep", "restart_start", "done"}

RestartInvoked ==
    \A i \in LoopIds :
        RestartDue /\ SchedulerLoopStep(i) /\ ~loops[i].must_cancel /\ ~shutdown_event
            => InRestart(i)'

C29_RestartOnNextIteration ==
    /\ [][FlagSet]_vars
    /\ [][RestartInvoked]_vars

\* C30: when the cycle loop calls restart() with attempts left and the device
\* accepting every connect and disconnect, the stop / sleep / start sequence
\* run inside the loop's task completes: the loop ends with the scheduler
\* running, exactly one cycle loop, the health-check loop and the action loop
\* alive, and restart_count one higher.
LoopAlive(i) == loops[i].pc \notin {"none", "done"}

OneOfEach ==
    /\ Cardinality({j \in LoopIds : LoopAlive(j)}) = 1
    /\ LoopAlive(scheduler_task)
    /\ scheduler_health_check_task = "running"
    /\ manipulation_task = "running" /\ running

AutoRestartTriggered(i, n) ==
    /\ device_accepts
    /\ loops[i].pc = "restart_stop"
    /\ restart_count = n

AutoRestartCompleted(i, n) ==
    /\ loops[i].pc = "done"
    /\ state = "running"
    /\ restart_count = n + 1
    /\ OneOfEach

C30_AutoRestartCompletes ==
    \A i \in LoopIds : \A n \in 0..(max_restart_attempts - 1) :
        AutoRestartTriggered(i, n) ~> AutoRestartCompleted(i, n)

\* the first loop restarted the scheduler from inside and ended; the second
\* loop is the one alive
C30_Witness ==
    /\ device_accepts
    /\ loops[1].pc = "done"
    /\ stops[1].result = "True"
    /\ starts[1].result = "True"
    /\ restart_count = 1
    /\ state = "running"
    /\ OneOfEach
    /\ scheduler_task = 2

\* C31: every iteration of the cycle loop adds one to total_cycles and one to
\* exactly one of successful_cycles and failed_cycles, so that between
\* iterations total_cycles = successful_cycles + failed_cycles; an iteration
\* whose component health check finds the device manager disconnected or the
\* manipulator unhealthy, and in which nothing raises, counts as successful.
CountedOnce ==
    metrics' # metrics =>
        /\ metrics'.total_cycles = metrics.total_cycles + 1
        /\ \/ /\ metrics'.successful_cycles = metrics.successful_cycles + 1
              /\ metrics'.failed_cycles = metrics.failed_cycles
           \/ /\ metrics'.successful_cycles = metrics.successful_cycles
              /\ metrics'.failed_cycles = metrics.failed_cycles + 1

FindingsLogOnly ==
    \A i \in LoopIds :
        /\ SchedulerCycleRuns(i, FALSE)
        /\ ~loops[i].must_cancel /\ ~shutdown_event
        /\ has_is_connected
        => /\ metrics'.successful_cycles = metrics.successful_cycles + 1
           /\ metrics'.failed_cycles = metrics.failed_cycles

C31_CyclesCounted ==
    /\ [](metrics.total_cycles = metrics.successful_cycles + metrics.failed_cycles)
    /\ [][CountedOnce]_vars
    /\ [][FindingsLogOnly]_vars

\* every cycle so far was counted successful, the last ones with the device
\* manager disconnected and the manipulator unhealthy
C31_Witness ==
    /\ metrics.total_cycles = MaxCycles
    /\ metrics.failed_cycles = 0
    /\ state = "running"
    /\ ~is_connected
    /\ ~is_healthy(World)

\* C32: the consecutive-failure counter never exceeds max_failures_before_pause:
\* a failed attempt of the loop adds one to it, a successful one resets it to
\* 0, and once it has reached the maximum the loop sleeps
\* failure_pause_duration and resets it to 0 before the next set_time.
FailureCounted ==
    status'.failed_manipulations = status.failed_manipulations + 1 =>
        consecutive_failures' =
            (IF manip.pc = "pausing" THEN 0 ELSE consecutive_failures) + 1

SuccessResets ==
    status'.successful_manipulations = status.successful_manipulations + 1 =>
        consecutive_failures' = 0

PauseBegins ==
    manip'.pc = "pausing" /\ manip.pc # "pausing" =>
        /\ consecutive_failures >= ManipConfig.max_failures_before_pause
        /\ manip'.wake_at = now + ManipConfig.failure_pause_duration

AttemptBegins ==
    \/ manip'.pc = "executing" /\ manip.pc # "executing"
    \/ /\ status'.total_manipulations = status.total_manipulations + 1
       /\ manip.pc # "executing"

PauseBeforeAttempt ==
    AttemptBegins /\ consecutive_failures >= ManipConfig.max_failures_before_pause
    => /\ manip.pc = "pausing"
       /\ now >= manip.wake_at
       /\ consecutive_failures' = IF manip'.pc = "executing" THEN 0 ELSE 1

\* C32: the counter stays within max_failures_before_pause; a failure adds one,
\* a success resets it, and at the maximum the loop pauses for
\* failure_pause_duration and resets it before the next attempt
C32_FailureCounterBounded ==
    /\ [](consecutive_failures <= ManipConfig.max_failures_before_pause)
    /\ [][FailureCounted]_vars
    /\ [][SuccessResets]_vars
    /\ [][PauseBegins]_vars
    /\ [][PauseBeforeAttempt]_vars

\* after two failures the loop paused, reset the counter and made its third
\* attempt, which failed: the counter is 1
C32_Witness ==
    /\ manip.pc = "sleeping"
    /\ consecutive_failures = 1
    /\ status.failed_manipulations = ManipConfig.max_failures_before_pause + 1
    /\ status.successful_manipulations = 0
    /\ status.next_manipulation_time # None
    /\ manip.wake_at >= status.next_manipulation_time + ManipConfig.failure_pause_duration

AttemptCounted == status'.total_manipulations = status.total_manipulations + 1

\* C33: every attempt the loop counts in total_manipulations has issued its
\* set_time command: the count only moves when the awaited command completes
C33_OneSetTimePerAttempt ==
    [][AttemptCounted => manip.pc = "executing"]_vars

\* an iteration of the running loop reads the clock
LoopObserves == ManipLoopStep /\ running /\ manip.pc # "pausing"

\* this day's closing boundary of the window
WindowEndOf(t) == replace_time(t, HourMinute(window_cfg.window_end))

PastCutoffWaits ==
    LoopObserves /\ IsInWindow(window_cfg, now) /\ ~IsActionDue(window_cfg, now)
    => /\ manip'.pc # "executing"
       /\ status'.total_manipulations = status.total_manipulations
       /\ \/ manip'.pc = "sleeping" /\ manip'.wake_at = WindowEndOf(now)
          \/ now = WindowEndOf(now)

AfterWaitOutside ==
    LoopObserves /\ manip.pc = "sleeping" /\ manip.branch = "_sleep_until_window_end"
    => ~IsInWindow(window_cfg, now)

\* C34: an iteration that finds the time in the window but at or past the
\* cutoff issues no set_time and sleeps until that day's window_end, and the
\* iteration that follows the sleep finds the time outside the window
C34_WaitsForWindowEnd ==
    [][PastCutoffWaits /\ AfterWaitOutside]_vars

C34_HalfPastCutoffWaits == [][PastCutoffWaits]_vars

\* the started scheduler with its manipulation loop and an outside task that
\* calls stop() at any time
NextStop ==
    \/ NextAuto
    \/ StopCall
    \/ ManipLoopStep
    \/ ManipExecDone

SpecStop == InitSched /\ [][NextStop]_vars /\ FairAuto

\* stop() was called in the RUNNING state and has not returned; the device
\* manager's disconnect() completes, as DeviceManager.disconnect does
StopInvoked ==
    /\ stops[Client].pc \in {"await_manipulation", "await_task", "disconnecting"}
    /\ stops[Client].from_state = "running"
    /\ device_accepts

TaskOver(task) == task \notin {"running", "cancelling"}

StopCompleted ==
    /\ stops[Client].pc = "returned"
    /\ \A i \in LoopIds : ~LoopAlive(i)
    /\ TaskOver(scheduler_health_check_task)
    /\ TaskOver(metrics_task)
    /\ TaskOver(manipulation_task)
    /\ ~is_connected

\* C35: a stop() called on a RUNNING scheduler returns, and by then the cycle
\* loop, the health-check loop, the metrics loop and the manipulation loop
\* are over and the device manager is disconnected
C35_StopTerminates == StopInvoked ~> StopCompleted

C35_Witness ==
    /\ StopCompleted
    /\ stops[Client].from_state = "running"
    /\ stops[Client].teardown
    /\ stops[Client].result = "True"
    /\ state = "stopped"
    /\ manip.pc = "done"
    /\ status.total_manipulations = 1

\* the changes of SchedulerState the specification lists
StateEdges ==
    { <<"stopped", "starting">>, <<"starting", "running">>, <<"starting", "error">>,
      <<"running", "stopping">>, <<"error", "stopping">>, <<"stopping", "stopped">>,
      <<"stopping", "error">>, <<"running", "error">> }

\* a step of one task changes the state by one listed change, or by the two
\* that a start() or a stop() that never suspends makes in a row
ListedChange ==
    \/ state' = state
    \/ <<state, state'>> \in StateEdges
    \/ \E via \in {"starting", "stopping"} :
          <<state, via>> \in StateEdges /\ <<via, state'>> \in StateEdges

\* C36: every change of the scheduler's state is one of the listed changes,
\* and the states PAUSING and PAUSED are never entered
C36_ListedTransitionsOnly ==
    /\ [](state \notin {"pausing", "paused"})
    /\ [][ListedChange]_vars

\* the loop calls execute_command("set_time") in this step
SetTimeIssued == manip'.pc = "executing" /\ manip.pc # "executing"

WindowStartOf(t) == replace_time(t, HourMinute(window_cfg.window_start))

\* C38: a loop that finds itself before window_start on a working day sleeps
\* no longer than until that day's window_start
C38_IdleWaitEndsAtWindowStart ==
    [][LoopObserves /\ is_weekday(now) /\ time_of(now) < window_cfg.window_start
         => /\ manip'.pc = "sleeping"
            /\ manip'.wake_at <= WindowStartOf(now)]_vars

\* C39: every iteration of the manipulation loop ends suspended, in a sleep
\* or in the awaited device command, so the loop never runs two iterations
\* without yielding to the event loop
C39_IterationSuspends ==
    [][LoopObserves => manip'.pc \in {"sleeping", "pausing", "executing"}]_vars

\* no start(), stop() or restart() call is in progress
NoCallInProgress ==
    /\ \A c \in DOMAIN starts : starts[c].pc # "connecting"
    /\ \A c \in DOMAIN stops :
          stops[c].pc \notin {"await_manipulation", "await_task", "disconnecting"}
    /\ \A i \in LoopIds :
          loops[i].pc \notin {"restart_stop", "restart_sleep", "restart_start"}

\* a stop() was called while a start() awaited connect(), or a start() while
\* a stop() was in progress
CallsOverlapped ==
    \/ stops[Client].from_state = "starting"
    \/ starts[Client].from_state = "stopping"

AllTornDown ==
    /\ \A i \in LoopIds : ~LoopAlive(i)
    /\ TaskOver(scheduler_health_check_task)
    /\ TaskOver(metrics_task)
    /\ TaskOver(manipulation_task) /\ ~running
    /\ ~is_connected

AllUp ==
    /\ LoopAlive(scheduler_task)
    /\ scheduler_health_check_task = "running"
    /\ metrics_task = "running"
    /\ manipulation_task = "running" /\ running
    /\ is_connected

\* C40: after a stop() that overlapped a start(), or a start() that overlapped
\* a stop(), once the calls have returned the state STOPPED goes with no loop
\* running and a disconnected device, and the state RUNNING with the loops
\* running and a connected device
C40_ConsistentAfterOverlap ==
    NoCallInProgress /\ CallsOverlapped =>
        /\ state = "stopped" => AllTornDown
        /\ state = "running" => AllUp

\* stop() was called during start(): both returned True and the scheduler runs
C40_Witness ==
    /\ NoCallInProgress
    /\ stops[Client].from_state = "starting"
    /\ stops[Client].pc = "returned"
    /\ starts[Client].pc = "returned" /\ starts[Client].result = "True"
    /\ state = "running"
    /\ AllUp

====
